---- MODULE Spec2Model ----
(***************************************************************************)
(* Membership-management backend: the relational store (members, events,  *)
(* event attendances, payments, notifications), the token middleware and   *)
(* the admin / mobile route handlers, as a state machine.                  *)
(*                                                                         *)
(* A handler that runs alone is one action (the whole handler, its hooks   *)
(* and its response).  Handlers whose interleavings matter are also given  *)
(* step by step, one action per awaited store call, over the in-flight     *)
(* request table reqs.                                                     *)
(***************************************************************************)
EXTENDS Integers, Sequences, FiniteSets, TLC

\* The columns and the request, response and token fields used below, with
\* the kind of value each holds.
Fields == [
    amount |-> "cents",
    args |-> "request",
    attendance_date |-> "hours",
    body |-> "request",
    count |-> "int",
    created_at |-> "stamp",
    date |-> "yyyymmdd",
    days |-> "int",
    email |-> "string",
    error |-> "string",
    event_id |-> "int",
    exp |-> "hours",
    expiry_date |-> "yyyymmdd",
    file |-> "mimetype",
    first_name |-> "string",
    found |-> "row id",
    gen |-> "string",
    hour |-> "int",
    iat |-> "hours",
    id |-> "int",
    identifier |-> "string",
    is_active |-> "bool",
    is_broadcast |-> "bool",
    items |-> "ids",
    last_name |-> "string",
    limit |-> "int",
    max |-> "int",
    max_attendees |-> "int",
    member |-> "int",
    memberId |-> "int",
    member_id |-> "int or string",
    member_ids |-> "ints",
    membership_type |-> "string",
    message |-> "string",
    n |-> "int",
    notes |-> "string",
    op |-> "string",
    otp |-> "string",
    page |-> "int",
    pages |-> "int",
    password |-> "string",
    payment_method |-> "string",
    payment_type |-> "string",
    pc |-> "string",
    phone |-> "string",
    qr_code |-> "string",
    query |-> "string",
    route |-> "string",
    search |-> "string",
    sig |-> "string",
    slot |-> "string",
    status |-> "enum or int",
    title |-> "string",
    token |-> "token",
    type |-> "string" ]

VARIABLES
    members,        \* table members: sequence of rows, row i has id i
    events,         \* table events
    attendances,    \* table event_attendances
    payments,       \* table payments
    notifications,  \* table notifications
    now,            \* position of the wall clock on Timeline
    opOnInstance,   \* whether Member.sequelize exposes Op (auth.js:50)
    reqs,           \* in-flight requests of the step-by-step handlers
    resp            \* the response sent by the last step (NoResp if none)

store == <<members, events, attendances, payments, notifications>>
vars == <<members, events, attendances, payments, notifications, now,
          opOnInstance, reqs, resp>>

-----------------------------------------------------------------------------
(* Bounds of the model                                                     *)

MaxPayments == 3
MaxMembers == 3
MaxAttendances == 2
MaxNotifications == 3
MaxEvents == 3

-----------------------------------------------------------------------------
(* Values                                                                  *)

\* SQL NULL / JS null for an integer or date column
NULL == -1

MembershipTypes == {"basic", "premium", "vip", "lifetime"}
MemberStatuses == {"active", "inactive", "suspended", "expired"}
PaymentMethods == {"cash", "card", "bank_transfer", "online"}
AttendanceStatuses == {"registered", "attended", "no_show", "cancelled"}

\* The wall clock: calendar date (YYYYMMDD) and hour of the day.
Timeline == <<
    [date |-> 20240601, hour |-> 0],
    [date |-> 20240601, hour |-> 12],
    [date |-> 20240602, hour |-> 0],
    [date |-> 20240602, hour |-> 12] >>

Today == Timeline[now].date

\* Days since the civil epoch of a date YYYYMMDD (proleptic Gregorian).
DayNumber(d) ==
    LET y == d \div 10000
        m == (d \div 100) % 100
        dd == d % 100
        a == (14 - m) \div 12
        yy == y + 4800 - a
        mm == m + 12 * a - 3
    IN  dd + ((153 * mm + 2) \div 5) + 365 * yy + (yy \div 4) - (yy \div 100)
           + (yy \div 400) - 32045

\* Hours since the epoch of a clock reading.
Hours(t) == DayNumber(t.date) * 24 + t.hour

NowHours == Hours(Timeline[now])

\* moment(date).add(1, 'year'): same month and day one year on, the day
\* clamped to the length of the month (Feb 29 becomes Feb 28).
AddYearLosingLeapDay(d) == d + 10000

AddYear(d) ==
    IF d % 10000 = 229 THEN d + 10000 - 1 ELSE d + 10000

-----------------------------------------------------------------------------
(* Responses                                                               *)

NoToken == [exp |-> 0, iat |-> 0, memberId |-> 0, sig |-> "none"]

NoResp == [args |-> <<>>, error |-> "", items |-> <<>>, n |-> 0, op |-> "none",
           pages |-> 0, status |-> 0, token |-> NoToken]

Resp(op, args, status, error) ==
    [args |-> args, error |-> error, items |-> <<>>, n |-> 0, op |-> op,
     pages |-> 0, status |-> status, token |-> NoToken]

-----------------------------------------------------------------------------
(* Member entity                                                           *)

\* QRCode.toDataURL(JSON.stringify({memberId, name, type}))
QrPayload(member_id, first_name, last_name, type) ==
    <<member_id, <<first_name, " ", last_name>>, type>>

SeedMember(id, mid, fn, ln, email, phone, type, status, expiry) ==
    [email |-> email, expiry_date |-> expiry, first_name |-> fn, id |-> id,
     is_active |-> TRUE, last_name |-> ln, member_id |-> mid,
     membership_type |-> type, phone |-> phone,
     qr_code |-> QrPayload(mid, fn, ln, type), status |-> status]

\* Member.findByPk(id): the row, or none
MemberExists(id) == id \in 1..Len(members)

-----------------------------------------------------------------------------
(* Initial state: the seeded database                                      *)

SeedExpiries == {20240101, 20240229, 20240601, 20241231}

\* The database after seeding: an elevated member, an ordinary member (whose
\* expiry date, status and phone the installation decides), two events (one
\* with a single place, one without a limit) and one payment.
Seeded(expiries, statuses, phones, ops) ==
    /\ \E e2 \in expiries, st2 \in statuses, ph2 \in phones :
         members = <<
           SeedMember(1, "MEM1002", "Jane", "Smith", "jane@example.com",
                      "+1002", "vip", "active", 20241231),
           SeedMember(2, "MEM1003", "Mike", "Johnson", "mike@example.com",
                      ph2, "basic", st2, e2) >>
    /\ events = << [id |-> 1, is_active |-> TRUE, max_attendees |-> 1],
                   [id |-> 2, is_active |-> TRUE, max_attendees |-> NULL] >>
    /\ attendances = <<>>
    /\ payments = << [amount |-> 19999, id |-> 1, member_id |-> 1,
                       payment_method |-> "bank_transfer",
                       payment_type |-> "membership_fee",
                       status |-> "completed"] >>
    /\ notifications = <<>>
    /\ now = 1
    /\ opOnInstance \in ops
    /\ reqs = {}
    /\ resp = NoResp

Init == Seeded({20241231}, {"active"}, {"+1003"}, {TRUE})

\* The installations signing in is checked on: member 2 active or suspended,
\* with a phone of its own or the one member 1 gave too, and either build of
\* the Sequelize instance.
InitAuth ==
    Seeded({20241231}, {"active", "suspended"}, {"+1002", "+1003"},
           {TRUE, FALSE})

InitRenew == Seeded(SeedExpiries, {"active", "suspended"}, {"+1003"}, {TRUE})

-----------------------------------------------------------------------------
(* Time passes                                                             *)

Tick ==
    /\ now < Len(Timeline)
    /\ now' = now + 1
    /\ resp' = NoResp
    /\ UNCHANGED <<store, opOnInstance, reqs>>

-----------------------------------------------------------------------------
(* POST /api/members/renewal                                               *)

RenewTypeInputs == {"premium", "vip", "gold"}
RenewMethodInputs == {"card", "bitcoin"}
RenewAmountInputs == {9999, 0, -500}     \* in cents
RenewMemberInputs == {0, 1, 2, 9}

RenewValid(a) ==
    /\ a.member_id >= 1
    /\ a.membership_type \in MembershipTypes
    /\ a.payment_method \in PaymentMethods
    /\ a.amount >= 0

\* The discarding variant: always one year from now.
NewExpiryFromNow(member) == AddYear(Today)

\* currentExpiry.isBefore(moment()) ? moment().add(1,'year')
\*                                  : currentExpiry.add(1,'year')
NewExpiry(member) ==
    IF Hours([date |-> member.expiry_date, hour |-> 0]) < NowHours
    THEN AddYear(Today)
    ELSE AddYear(member.expiry_date)

RenewalPayment(a) ==
    [amount |-> a.amount, id |-> Len(payments) + 1, member_id |-> a.member_id,
     payment_method |-> a.payment_method, payment_type |-> "renewal",
     status |-> "completed"]

\* member.update(values) with the beforeUpdate hook: the QR payload is
\* recomputed when member_id, first_name, last_name or membership_type change.
\* An update that brings the member back when its status becomes active.
UpdatedMemberReactivating(m, values) ==
    LET u == [f \in DOMAIN m |->
                IF f \in DOMAIN values THEN values[f]
                ELSE IF f = "is_active" /\ "status" \in DOMAIN values
                     THEN values.status = "active"
                     ELSE m[f]]
    IN  u

UpdatedMember(m, values) ==
    LET u == [f \in DOMAIN m |-> IF f \in DOMAIN values THEN values[f] ELSE m[f]]
    IN  IF \/ u.member_id # m.member_id \/ u.first_name # m.first_name
           \/ u.last_name # m.last_name \/ u.membership_type # m.membership_type
        THEN [u EXCEPT !.qr_code =
                 QrPayload(u.member_id, u.first_name, u.last_name, u.membership_type)]
        ELSE u

Renew(a) ==
    /\ UNCHANGED <<events, attendances, notifications, now, opOnInstance, reqs>>
    /\ IF ~RenewValid(a)
       THEN /\ resp' = Resp("renew", a, 400, "validation")
            /\ UNCHANGED <<members, payments>>
       ELSE IF ~MemberExists(a.member_id)
       THEN /\ resp' = Resp("renew", a, 404, "Member not found")
            /\ UNCHANGED <<members, payments>>
       ELSE LET member == members[a.member_id]
            IN  /\ Len(payments) < MaxPayments
                /\ payments' = Append(payments, RenewalPayment(a))
                /\ members' = [members EXCEPT ![a.member_id] =
                       UpdatedMember(member,
                           [expiry_date |-> NewExpiry(member),
                            membership_type |-> a.membership_type,
                            status |-> "active"])]
                /\ resp' = Resp("renew", a, 200, "")

RenewAny ==
    \E m \in RenewMemberInputs, t \in RenewTypeInputs,
       pm \in RenewMethodInputs, amt \in RenewAmountInputs :
        Renew([amount |-> amt, member_id |-> m, membership_type |-> t,
               payment_method |-> pm])

-----------------------------------------------------------------------------
(* Tokens and the admin gate (middleware/auth.js)                          *)

\* expiresIn: '24h'
TokenTTL == 24

\* jwt.sign({ memberId }, JWT_SECRET, { expiresIn: '24h' }) at clock reading i
TokenAt(memberId, i) ==
    [exp |-> Hours(Timeline[i]) + TokenTTL, iat |-> Hours(Timeline[i]),
     memberId |-> memberId, sig |-> "good"]

GenerateToken(memberId) == TokenAt(memberId, now)

\* A token signed with another secret, or tampered with.
Forged(t) == [t EXCEPT !.sig = "bad"]

\* The bearer tokens a client can present now: none, a token signed at an
\* earlier clock reading, or a forged one.
TokenSubjects == {1, 2, 9}

TokenInputs ==
    {NoToken}
    \cup {TokenAt(m, i) : m \in TokenSubjects, i \in {1, now}}
    \cup {Forged(TokenAt(1, now))}

AuthOk(member) == [error |-> "", member |-> member, status |-> 0]
AuthFail(status, error) == [error |-> error, member |-> 0, status |-> status]

\* Variants of authenticateToken with one check dropped.
AuthenticateTokenNoExpiry(token) ==
    IF token = NoToken THEN AuthFail(401, "Access token required")
    ELSE IF token.sig # "good" THEN AuthFail(401, "Invalid token")
    ELSE IF ~MemberExists(token.memberId) \/ ~members[token.memberId].is_active
         THEN AuthFail(401, "Invalid or inactive member")
    ELSE AuthOk(token.memberId)

AuthenticateTokenNoActiveCheck(token) ==
    IF token = NoToken THEN AuthFail(401, "Access token required")
    ELSE IF token.sig # "good" THEN AuthFail(401, "Invalid token")
    ELSE IF NowHours >= token.exp THEN AuthFail(401, "Token expired")
    ELSE IF ~MemberExists(token.memberId)
         THEN AuthFail(401, "Invalid or inactive member")
    ELSE AuthOk(token.memberId)

\* authenticateToken: the header's token, jwt.verify (signature, then
\* expiry), then the member row.
AuthenticateToken(token) ==
    IF token = NoToken THEN AuthFail(401, "Access token required")
    ELSE IF token.sig # "good" THEN AuthFail(401, "Invalid token")
    ELSE IF NowHours >= token.exp THEN AuthFail(401, "Token expired")
    ELSE IF ~MemberExists(token.memberId) \/ ~members[token.memberId].is_active
         THEN AuthFail(401, "Invalid or inactive member")
    ELSE AuthOk(token.memberId)

RequireAdminAnyPaidTier(auth) ==
    IF auth.member = 0 THEN AuthFail(401, "Authentication required")
    ELSE IF members[auth.member].membership_type \notin {"premium", "vip", "lifetime"}
         THEN AuthFail(403, "Admin access required")
    ELSE auth

\* requireAdmin on the member authenticateToken attached to the request
RequireAdmin(auth) ==
    IF auth.member = 0 THEN AuthFail(401, "Authentication required")
    ELSE IF members[auth.member].membership_type \notin {"vip", "lifetime"}
         THEN AuthFail(403, "Admin access required")
    ELSE auth

\* The middleware chain in front of every admin handler.
AdminGate(token) ==
    LET auth == AuthenticateToken(token)
    IN  IF auth.status # 0 THEN auth ELSE RequireAdmin(auth)

-----------------------------------------------------------------------------
(* Event attendance                                                        *)

RegisteredCountAllRows(event_id) ==
    Cardinality({i \in 1..Len(attendances) :
                    attendances[i].event_id = event_id})

\* EventAttendance.count({ where: { event_id, status: 'registered' } })
RegisteredCount(event_id) ==
    Cardinality({i \in 1..Len(attendances) :
                    /\ attendances[i].event_id = event_id
                    /\ attendances[i].status = "registered"})

\* EventAttendance.findOne({ where: { member_id, event_id } }): row ids
ExistingAttendance(member_id, event_id) ==
    {i \in 1..Len(attendances) :
        /\ attendances[i].member_id = member_id
        /\ attendances[i].event_id = event_id}

EventExists(id) == id \in 1..Len(events)

\* if (event.max_attendees): null and 0 are both falsy
HasCapacityLimit(max) == max # NULL /\ max # 0

EventIsFullStrict(event_id, max) == RegisteredCount(event_id) > max

\* currentAttendees >= event.max_attendees
EventIsFull(event_id, max) == RegisteredCount(event_id) >= max

AttendanceRow(event_id, member_id, status, notes, attendance_date) ==
    [attendance_date |-> attendance_date, event_id |-> event_id,
     id |-> Len(attendances) + 1, member_id |-> member_id, notes |-> notes,
     status |-> status]

(* POST /api/members/register-event, run alone *)

RegisterEventValid(a) == a.member_id >= 1 /\ a.event_id >= 1

\* The handler with the insert moved in front of the capacity test.
RegisterEventInsertFirst(a) ==
    /\ UNCHANGED <<members, events, payments, notifications, now,
                   opOnInstance, reqs>>
    /\ IF ~RegisterEventValid(a)
       THEN /\ resp' = Resp("register-event", a, 400, "validation")
            /\ UNCHANGED attendances
       ELSE IF ~MemberExists(a.member_id)
       THEN /\ resp' = Resp("register-event", a, 404, "Member not found")
            /\ UNCHANGED attendances
       ELSE IF ~EventExists(a.event_id)
       THEN /\ resp' = Resp("register-event", a, 404, "Event not found")
            /\ UNCHANGED attendances
       ELSE IF ExistingAttendance(a.member_id, a.event_id) # {}
       THEN /\ resp' = Resp("register-event", a, 400,
                            "Already registered for this event")
            /\ UNCHANGED attendances
       ELSE /\ Len(attendances) < MaxAttendances
            /\ attendances' = Append(attendances,
                 AttendanceRow(a.event_id, a.member_id, "registered", "", NULL))
            /\ resp' = IF /\ HasCapacityLimit(events[a.event_id].max_attendees)
                          /\ EventIsFull(a.event_id,
                                         events[a.event_id].max_attendees)
                       THEN Resp("register-event", a, 400, "Event is full")
                       ELSE Resp("register-event", a, 200, "")

RegisterEvent(a) ==
    /\ UNCHANGED <<members, events, payments, notifications, now,
                   opOnInstance, reqs>>
    /\ IF ~RegisterEventValid(a)
       THEN /\ resp' = Resp("register-event", a, 400, "validation")
            /\ UNCHANGED attendances
       ELSE IF ~MemberExists(a.member_id)
       THEN /\ resp' = Resp("register-event", a, 404, "Member not found")
            /\ UNCHANGED attendances
       ELSE IF ~EventExists(a.event_id)
       THEN /\ resp' = Resp("register-event", a, 404, "Event not found")
            /\ UNCHANGED attendances
       ELSE IF /\ HasCapacityLimit(events[a.event_id].max_attendees)
               /\ EventIsFull(a.event_id, events[a.event_id].max_attendees)
       THEN /\ resp' = Resp("register-event", a, 400, "Event is full")
            /\ UNCHANGED attendances
       ELSE IF ExistingAttendance(a.member_id, a.event_id) # {}
       THEN /\ resp' = Resp("register-event", a, 400,
                            "Already registered for this event")
            /\ UNCHANGED attendances
       ELSE /\ Len(attendances) < MaxAttendances
            /\ attendances' = Append(attendances,
                 AttendanceRow(a.event_id, a.member_id, "registered", "", NULL))
            /\ resp' = Resp("register-event", a, 200, "")

RegisterMemberInputs == {0, 1, 2, 9}
RegisterEventInputs == {1, 2, 9}

RegisterEventAny ==
    \E m \in RegisterMemberInputs, e \in RegisterEventInputs :
        RegisterEvent([event_id |-> e, member_id |-> m])

(* POST /admin/events/:id/attendance, run alone *)

RecordAttendanceValid(a) ==
    a.member_id >= 1 /\ a.status \in AttendanceStatuses

\* attendance_date: status === 'attended' ? new Date() : null
AttendanceDate(status) == IF status = "attended" THEN NowHours ELSE NULL

RecordAttendance(token, a) ==
    LET gate == AdminGate(token)
        ra == [a EXCEPT !.token = token]
    IN
    /\ UNCHANGED <<members, events, payments, notifications, now,
                   opOnInstance, reqs>>
    /\ IF gate.status # 0
       THEN /\ resp' = Resp("record-attendance", ra, gate.status, gate.error)
            /\ UNCHANGED attendances
       ELSE IF ~RecordAttendanceValid(a)
       THEN /\ resp' = Resp("record-attendance", ra, 400, "validation")
            /\ UNCHANGED attendances
       ELSE IF ~EventExists(a.event_id)
       THEN /\ resp' = Resp("record-attendance", ra, 404, "Event not found")
            /\ UNCHANGED attendances
       ELSE IF ~MemberExists(a.member_id)
       THEN /\ resp' = Resp("record-attendance", ra, 404, "Member not found")
            /\ UNCHANGED attendances
       ELSE LET ex == ExistingAttendance(a.member_id, a.event_id)
            IN  /\ resp' = Resp("record-attendance", ra, 200, "")
                /\ IF ex # {}
                   THEN LET i == CHOOSE i \in ex : TRUE
                        IN  attendances' = [attendances EXCEPT
                              ![i].status = a.status,
                              ![i].notes = a.notes,
                              ![i].attendance_date = AttendanceDate(a.status)]
                   ELSE /\ Len(attendances) < MaxAttendances
                        /\ attendances' = Append(attendances,
                              AttendanceRow(a.event_id, a.member_id, a.status,
                                            a.notes, AttendanceDate(a.status)))

RecordStatusInputs == {"attended", "cancelled", "present"}

RecordAttendanceAny ==
    \E t \in TokenInputs, m \in {1, 2, 9}, e \in {1, 9},
       st \in RecordStatusInputs :
        RecordAttendance(t, [event_id |-> e, member_id |-> m, notes |-> "late",
                             status |-> st, token |-> NoToken])

(* POST /api/members/register-event, one step per awaited store call *)

Slots == {"r1", "r2"}

SlotFree(s) == \A r \in reqs : r.slot # s

\* A conditional insert: the row is refused when the event is full.
InsertAllowedWithCapacityCheck(member_id, event_id) ==
    /\ ExistingAttendance(member_id, event_id) = {}
    /\ ~(/\ HasCapacityLimit(events[event_id].max_attendees)
         /\ EventIsFull(event_id, events[event_id].max_attendees))

\* An insert into a table without the unique index.
InsertAllowedNoIndex(member_id, event_id) == TRUE

\* EventAttendance.create: the unique index on (event_id, member_id) is the
\* only condition the store puts on the insert.
InsertAllowed(member_id, event_id) ==
    ExistingAttendance(member_id, event_id) = {}

\* Validation and the two findByPk calls; the handler keeps the event row.
RegStart(s, a) ==
    /\ SlotFree(s)
    /\ UNCHANGED <<store, now, opOnInstance>>
    /\ IF ~RegisterEventValid(a)
       THEN resp' = Resp("register-event", a, 400, "validation") /\ UNCHANGED reqs
       ELSE IF ~MemberExists(a.member_id)
       THEN resp' = Resp("register-event", a, 404, "Member not found")
            /\ UNCHANGED reqs
       ELSE IF ~EventExists(a.event_id)
       THEN resp' = Resp("register-event", a, 404, "Event not found")
            /\ UNCHANGED reqs
       ELSE /\ resp' = NoResp
            /\ reqs' = reqs \cup
                 {[args |-> a, max |-> events[a.event_id].max_attendees,
                   op |-> "register-event",
                   pc |-> IF HasCapacityLimit(events[a.event_id].max_attendees)
                          THEN "count" ELSE "find",
                   slot |-> s]}

\* await EventAttendance.count(...), then the comparison
RegCount(r) ==
    /\ r \in reqs /\ r.op = "register-event" /\ r.pc = "count"
    /\ UNCHANGED <<store, now, opOnInstance>>
    /\ IF EventIsFull(r.args.event_id, r.max)
       THEN /\ resp' = Resp("register-event", r.args, 400, "Event is full")
            /\ reqs' = reqs \ {r}
       ELSE /\ resp' = NoResp
            /\ reqs' = (reqs \ {r}) \cup {[r EXCEPT !.pc = "find"]}

\* await EventAttendance.findOne(...)
RegFind(r) ==
    /\ r \in reqs /\ r.op = "register-event" /\ r.pc = "find"
    /\ UNCHANGED <<store, now, opOnInstance>>
    /\ IF ExistingAttendance(r.args.member_id, r.args.event_id) # {}
       THEN /\ resp' = Resp("register-event", r.args, 400,
                            "Already registered for this event")
            /\ reqs' = reqs \ {r}
       ELSE /\ resp' = NoResp
            /\ reqs' = (reqs \ {r}) \cup {[r EXCEPT !.pc = "create"]}

\* await EventAttendance.create(...); a constraint error lands in catch
RegCreate(r) ==
    /\ r \in reqs /\ r.op = "register-event" /\ r.pc = "create"
    /\ UNCHANGED <<members, events, payments, notifications, now, opOnInstance>>
    /\ reqs' = reqs \ {r}
    /\ IF InsertAllowed(r.args.member_id, r.args.event_id)
       THEN /\ Len(attendances) < MaxAttendances
            /\ attendances' = Append(attendances,
                 AttendanceRow(r.args.event_id, r.args.member_id,
                               "registered", "", NULL))
            /\ resp' = Resp("register-event", r.args, 200, "")
       ELSE /\ resp' = Resp("register-event", r.args, 500,
                            "Failed to register for event")
            /\ UNCHANGED attendances

(* POST /app/events/:id/attendance, one step per awaited store call *)

\* The middleware, the validators and the two findByPk calls
RecStart(s, token, a) ==
    LET gate == AdminGate(token)
        ra == [a EXCEPT !.token = token]
        op == "record-attendance"
    IN
    /\ SlotFree(s)
    /\ UNCHANGED <<store, now, opOnInstance>>
    /\ IF gate.status # 0
       THEN resp' = Resp(op, ra, gate.status, gate.error) /\ UNCHANGED reqs
       ELSE IF ~RecordAttendanceValid(a)
       THEN resp' = Resp(op, ra, 400, "validation") /\ UNCHANGED reqs
       ELSE IF ~EventExists(a.event_id)
       THEN resp' = Resp(op, ra, 404, "Event not found") /\ UNCHANGED reqs
       ELSE IF ~MemberExists(a.member_id)
       THEN resp' = Resp(op, ra, 404, "Member not found") /\ UNCHANGED reqs
       ELSE /\ resp' = NoResp
            /\ reqs' = reqs \cup
                 {[args |-> ra, found |-> 0, op |-> op, pc |-> "find",
                   slot |-> s]}

\* await EventAttendance.findOne({ where: { event_id, member_id } }): the
\* handler keeps the row it found (0: none)
RecFind(r) ==
    /\ r \in reqs /\ r.op = "record-attendance" /\ r.pc = "find"
    /\ UNCHANGED <<store, now, opOnInstance>>
    /\ resp' = NoResp
    /\ LET ex == ExistingAttendance(r.args.member_id, r.args.event_id)
       IN  reqs' = (reqs \ {r}) \cup
             {[r EXCEPT !.found = IF ex = {} THEN 0 ELSE CHOOSE i \in ex : TRUE,
                        !.pc = "write"]}

\* await existingAttendance.update(...) or await EventAttendance.create(...);
\* a constraint error lands in catch
RecWrite(r) ==
    /\ r \in reqs /\ r.op = "record-attendance" /\ r.pc = "write"
    /\ UNCHANGED <<members, events, payments, notifications, now, opOnInstance>>
    /\ reqs' = reqs \ {r}
    /\ IF r.found # 0
       THEN /\ attendances' = [attendances EXCEPT
                 ![r.found].status = r.args.status,
                 ![r.found].notes = r.args.notes,
                 ![r.found].attendance_date = AttendanceDate(r.args.status)]
            /\ resp' = Resp("record-attendance", r.args, 200, "")
       ELSE IF InsertAllowed(r.args.member_id, r.args.event_id)
       THEN /\ Len(attendances) < MaxAttendances
            /\ attendances' = Append(attendances,
                 AttendanceRow(r.args.event_id, r.args.member_id,
                               r.args.status, r.args.notes,
                               AttendanceDate(r.args.status)))
            /\ resp' = Resp("record-attendance", r.args, 200, "")
       ELSE /\ resp' = Resp("record-attendance", r.args, 500,
                            "Failed to record attendance")
            /\ UNCHANGED attendances

RecStartAny ==
    \E s \in Slots, t \in {NoToken, GenerateToken(1)}, mem \in {1, 2},
       st \in {"attended", "cancelled"} :
        RecStart(s, t, [event_id |-> 1, member_id |-> mem, notes |-> "late",
                        status |-> st, token |-> NoToken])

RecFindAny == \E r \in reqs : RecFind(r)
RecWriteAny == \E r \in reqs : RecWrite(r)

\* register-event requests for the same event
RegStartSame ==
    \E s \in Slots, mem \in {1, 2} :
        RegStart(s, [event_id |-> 1, member_id |-> mem])

RegStartAny ==
    \E s \in Slots, m \in RegisterMemberInputs, e \in RegisterEventInputs :
        RegStart(s, [event_id |-> e, member_id |-> m])

RegCountAny == \E r \in reqs : RegCount(r)
RegFindAny == \E r \in reqs : RegFind(r)
RegCreateAny == \E r \in reqs : RegCreate(r)

-----------------------------------------------------------------------------
(* Creating members: POST /api/auth/register and POST /admin/members       *)

\* body('email').isEmail(): the addresses of the inputs that are well formed
WellFormedEmails ==
    {"Jane@Example.com", "jane@example.com", "new@example.com"}

IsEmail(e) == e \in WellFormedEmails

\* .normalizeEmail(): the domain and the local part are lower-cased
NormalizeEmail(e) ==
    IF e = "Jane@Example.com" THEN "jane@example.com" ELSE e

\* isLength({ min: 2, max: 50 }) after notEmpty
NameOk(n) == Len(n) >= 2 /\ Len(n) <= 50

\* `MEM${Date.now()}${Math.floor(Math.random() * 1000)}`: two requests in the
\* same millisecond can draw the same identifier
GeneratedMemberIds == {"MEM17172000001", "MEM17172000002"}

\* expiryDate.setFullYear(expiryDate.getFullYear() + 1) on a JS Date:
\* Feb 29 overflows to Mar 1
SetFullYearPlusOne(d) ==
    IF d % 10000 = 229 THEN d + 10000 + 72 ELSE d + 10000

\* The unique index on member_id alone.
UniqueViolationMemberIdOnly(row, except) ==
    \E i \in 1..Len(members) : i # except /\ members[i].member_id = row.member_id

\* The unique indexes of members: email and member_id
\* (SequelizeUniqueConstraintError); `except` is the row being updated.
UniqueViolation(row, except) ==
    \E i \in 1..Len(members) :
        /\ i # except
        /\ \/ members[i].email = row.email
           \/ members[i].member_id = row.member_id

\* Member.create(values): defaults and the beforeCreate hook
NewMember(v) ==
    [email |-> v.email, expiry_date |-> v.expiry_date,
     first_name |-> v.first_name, id |-> Len(members) + 1, is_active |-> TRUE,
     last_name |-> v.last_name, member_id |-> v.member_id,
     membership_type |-> v.membership_type, phone |-> v.phone,
     qr_code |-> QrPayload(v.member_id, v.first_name, v.last_name,
                           v.membership_type),
     status |-> v.status]

RegisterValid(b) ==
    /\ NameOk(b.first_name) /\ NameOk(b.last_name)
    /\ IsEmail(b.email)
    /\ b.phone # ""
    /\ Len(b.password) >= 6

\* Member.findOne({ where: { email } })
EmailRegistered(email) == \E i \in 1..Len(members) : members[i].email = email

\* The token a login or registration response carries.
RespWithToken(op, args, status, memberId) ==
    [Resp(op, args, status, "") EXCEPT !.token = GenerateToken(memberId)]

\* POST /api/auth/register; the password hash is handed to Member.create but
\* the model has no password column, so nothing of it is stored.
Register(b, gen) ==
    LET email == NormalizeEmail(b.email)
        row == NewMember([email |-> email,
                          expiry_date |-> SetFullYearPlusOne(Today),
                          first_name |-> b.first_name,
                          last_name |-> b.last_name, member_id |-> gen,
                          membership_type |-> "basic", phone |-> b.phone,
                          status |-> "active"])
        a == [body |-> b, gen |-> gen]
    IN
    /\ UNCHANGED <<events, attendances, payments, notifications, now,
                   opOnInstance, reqs>>
    /\ IF ~RegisterValid(b)
       THEN resp' = Resp("register", a, 400, "validation") /\ UNCHANGED members
       ELSE IF EmailRegistered(email)
       THEN resp' = Resp("register", a, 400, "Email already registered")
            /\ UNCHANGED members
       ELSE IF UniqueViolation(row, 0)
       THEN resp' = Resp("register", a, 400, "Email or member ID already exists")
            /\ UNCHANGED members
       ELSE /\ Len(members) < MaxMembers
            /\ members' = Append(members, row)
            /\ resp' = RespWithToken("register", a, 201, row.id)

CreateMemberValid(b) ==
    /\ NameOk(b.first_name) /\ NameOk(b.last_name)
    /\ IsEmail(b.email)
    /\ b.phone # ""
    /\ b.membership_type \in MembershipTypes

\* POST /admin/members
AdminCreateMember(token, b, gen) ==
    LET gate == AdminGate(token)
        row == NewMember([email |-> NormalizeEmail(b.email),
                          expiry_date |-> b.expiry_date,
                          first_name |-> b.first_name,
                          last_name |-> b.last_name, member_id |-> gen,
                          membership_type |-> b.membership_type,
                          phone |-> b.phone, status |-> "active"])
        a == [body |-> b, gen |-> gen, token |-> token]
    IN
    /\ UNCHANGED <<events, attendances, payments, notifications, now,
                   opOnInstance, reqs>>
    /\ IF gate.status # 0
       THEN resp' = Resp("admin-create-member", a, gate.status, gate.error)
            /\ UNCHANGED members
       ELSE IF ~CreateMemberValid(b)
       THEN resp' = Resp("admin-create-member", a, 400, "validation")
            /\ UNCHANGED members
       ELSE IF UniqueViolation(row, 0)
       THEN resp' = Resp("admin-create-member", a, 400,
                         "Email or member ID already exists")
            /\ UNCHANGED members
       ELSE /\ Len(members) < MaxMembers
            /\ members' = Append(members, row)
            /\ resp' = Resp("admin-create-member", a, 201, "")

RegisterInput(e, fn, pw) ==
    [email |-> e, first_name |-> fn, last_name |-> "Doe", password |-> pw,
     phone |-> "+1003"]

RegisterBodies ==
    { RegisterInput("Jane@Example.com", "Al", "secret1"),
      RegisterInput("Jane@Example.com", "Al", "abc"),
      RegisterInput("new@example.com", "Al", "secret1"),
      RegisterInput("new-at-example", "A", "secret1") }

CreateMemberInput(e, fn, t) ==
    [email |-> e, expiry_date |-> 20250601, first_name |-> fn,
     last_name |-> "Doe", membership_type |-> t, phone |-> "+1004"]

CreateMemberBodies ==
    { CreateMemberInput("Jane@Example.com", "Al", "basic"),
      CreateMemberInput("jane@example.com", "A", "basic"),
      CreateMemberInput("new@example.com", "Al", "vip"),
      CreateMemberInput("new@example.com", "Al", "gold") }

RegisterAny ==
    \E b \in RegisterBodies, gen \in GeneratedMemberIds : Register(b, gen)

AdminCreateMemberAny ==
    \E t \in TokenInputs, b \in CreateMemberBodies, gen \in GeneratedMemberIds :
        AdminCreateMember(t, b, gen)

(* PUT /admin/members/:id and PATCH /admin/members/:id/disable *)

\* The optional validators of the update route, on the fields present.
UpdateMemberValid(b) ==
    /\ "first_name" \in DOMAIN b => NameOk(b.first_name)
    /\ "last_name" \in DOMAIN b => NameOk(b.last_name)
    /\ "email" \in DOMAIN b => IsEmail(b.email)
    /\ "membership_type" \in DOMAIN b => b.membership_type \in MembershipTypes
    /\ "status" \in DOMAIN b => b.status \in MemberStatuses

\* normalizeEmail() rewrites req.body.email when it is present
SanitizedUpdate(b) ==
    [f \in DOMAIN b |-> IF f = "email" THEN NormalizeEmail(b[f]) ELSE b[f]]

AdminUpdateMember(token, id, b) ==
    LET gate == AdminGate(token)
        a == [body |-> b, id |-> id, token |-> token]
    IN
    /\ UNCHANGED <<events, attendances, payments, notifications, now,
                   opOnInstance, reqs>>
    /\ IF gate.status # 0
       THEN resp' = Resp("admin-update-member", a, gate.status, gate.error)
            /\ UNCHANGED members
       ELSE IF ~UpdateMemberValid(b)
       THEN resp' = Resp("admin-update-member", a, 400, "validation")
            /\ UNCHANGED members
       ELSE IF ~MemberExists(id)
       THEN resp' = Resp("admin-update-member", a, 404, "Member not found")
            /\ UNCHANGED members
       ELSE LET row == UpdatedMember(members[id], SanitizedUpdate(b))
            IN  IF UniqueViolation(row, id)
                THEN resp' = Resp("admin-update-member", a, 400,
                                  "Email already exists")
                     /\ UNCHANGED members
                ELSE /\ members' = [members EXCEPT ![id] = row]
                     /\ resp' = Resp("admin-update-member", a, 200, "")

AdminDisableMember(token, id) ==
    LET gate == AdminGate(token)
        a == [id |-> id, token |-> token]
    IN
    /\ UNCHANGED <<events, attendances, payments, notifications, now,
                   opOnInstance, reqs>>
    /\ IF gate.status # 0
       THEN resp' = Resp("admin-disable-member", a, gate.status, gate.error)
            /\ UNCHANGED members
       ELSE IF ~MemberExists(id)
       THEN resp' = Resp("admin-disable-member", a, 404, "Member not found")
            /\ UNCHANGED members
       ELSE /\ members' = [members EXCEPT ![id] =
                 UpdatedMember(members[id],
                               [is_active |-> FALSE, status |-> "inactive"])]
            /\ resp' = Resp("admin-disable-member", a, 200, "")

UpdateMemberBodies ==
    { [membership_type |-> "vip"], [email |-> "Jane@Example.com"],
      [first_name |-> "A"] }

AdminMemberIds == {1, 2, 9}

AdminUpdateMemberAny ==
    \E t \in TokenInputs, id \in AdminMemberIds, b \in UpdateMemberBodies :
        AdminUpdateMember(t, id, b)

AdminDisableMemberAny ==
    \E t \in TokenInputs, id \in AdminMemberIds : AdminDisableMember(t, id)

-----------------------------------------------------------------------------
(* Notifications: /api/notifications                                       *)

NotificationStatuses == {"unread", "read", "sent"}

\* Notification.create / bulkCreate row: member_id is NULL when none is given,
\* is_broadcast defaults to false (title and message are not read by any
\* handler's condition and are left out). created_at is the timestamp of the
\* inserting call, the same for all rows of one bulkCreate.
NotificationRow(id, member_id, type, is_broadcast, created_at) ==
    [created_at |-> created_at, id |-> id, is_broadcast |-> is_broadcast,
     member_id |-> member_id, status |-> "unread", type |-> type]

\* member_id = :m in SQL: never true of a NULL member_id
SqlEquals(column, value) == column # NULL /\ column = value

\* The filter without the member condition.
AddressedToAnyone(n, member_id) == TRUE

\* where: { [Op.or]: [{ member_id }, { is_broadcast: true }] }
AddressedTo(n, member_id) ==
    SqlEquals(n.member_id, member_id) \/ n.is_broadcast

\* The same filter without the broadcast branch.
UnreadWhereOwnOnly(n, member_id) ==
    SqlEquals(n.member_id, member_id) /\ n.status = "unread"

\* where: { [Op.or]: [...], status: 'unread' }
UnreadWhere(n, member_id) ==
    AddressedTo(n, member_id) /\ n.status = "unread"

\* Notification.count({ where }): the rows are visited one by one
RECURSIVE CountUnread(_, _)
CountUnread(rows, member_id) ==
    IF rows = <<>> THEN 0
    ELSE (IF UnreadWhere(Head(rows), member_id) THEN 1 ELSE 0)
         + CountUnread(Tail(rows), member_id)

\* The query strings sent as ?member_id=
QueryInputs == {"", "1", "2", "9", "2abc", "abc"}

NaN == -2

\* parseInt(string): leading digits are read, no leading digit gives NaN
ParseInt(q) ==
    CASE q = "1" -> 1
      [] q = "2" -> 2
      [] q = "9" -> 9
      [] q = "2abc" -> 2
      [] OTHER -> NaN

\* GET /unread-count?member_id=q. A NaN in the where clause either makes the
\* query fail or compares equal to no row, depending on the dialect.
UnreadCount(q) ==
    LET a == [query |-> q] IN
    /\ UNCHANGED <<store, now, opOnInstance, reqs>>
    /\ IF q = ""
       THEN resp' = Resp("unread-count", a, 400, "Member ID required")
       ELSE IF ParseInt(q) = NaN
       THEN \/ resp' = Resp("unread-count", a, 500,
                            "Failed to get unread count")
            \/ resp' = [Resp("unread-count", a, 200, "")
                          EXCEPT !.n = CountUnread(notifications, NaN)]
       ELSE resp' = [Resp("unread-count", a, 200, "")
                       EXCEPT !.n = CountUnread(notifications, ParseInt(q))]

\* PATCH /:id/read
MarkRead(id) ==
    LET a == [id |-> id] IN
    /\ UNCHANGED <<members, events, attendances, payments, now, opOnInstance,
                   reqs>>
    /\ IF id \notin 1..Len(notifications)
       THEN resp' = Resp("mark-read", a, 404, "Notification not found")
            /\ UNCHANGED notifications
       ELSE /\ notifications' = [notifications EXCEPT ![id].status = "read"]
            /\ resp' = Resp("mark-read", a, 200, "")

\* PATCH /mark-all-read
MarkAllRead(member_id) ==
    LET a == [member_id |-> member_id] IN
    /\ UNCHANGED <<members, events, attendances, payments, now, opOnInstance,
                   reqs>>
    /\ IF member_id < 1
       THEN resp' = Resp("mark-all-read", a, 400, "validation")
            /\ UNCHANGED notifications
       ELSE /\ notifications' =
                 [i \in 1..Len(notifications) |->
                    IF UnreadWhere(notifications[i], member_id)
                    THEN [notifications[i] EXCEPT !.status = "read"]
                    ELSE notifications[i]]
            /\ resp' = Resp("mark-all-read", a, 200, "")

\* POST /announcement
SendAnnouncement(title, message) ==
    LET a == [message |-> message, title |-> title] IN
    /\ UNCHANGED <<members, events, attendances, payments, now, opOnInstance,
                   reqs>>
    /\ IF title = "" \/ message = ""
       THEN resp' = Resp("announcement", a, 400, "validation")
            /\ UNCHANGED notifications
       ELSE /\ Len(notifications) < MaxNotifications
            /\ notifications' = Append(notifications,
                 NotificationRow(Len(notifications) + 1, NULL, "announcement",
                                 TRUE, Len(notifications) + 1))
            /\ resp' = [Resp("announcement", a, 200, "") EXCEPT !.n =
                 Cardinality({i \in 1..Len(members) : members[i].is_active})]

\* POST /membership-expiry
SendMembershipExpiry(member_id, days) ==
    LET a == [days |-> days, member_id |-> member_id] IN
    /\ UNCHANGED <<members, events, attendances, payments, now, opOnInstance,
                   reqs>>
    /\ IF member_id < 1 \/ days < 0
       THEN resp' = Resp("membership-expiry", a, 400, "validation")
            /\ UNCHANGED notifications
       ELSE IF ~MemberExists(member_id)
       THEN resp' = Resp("membership-expiry", a, 404, "Member not found")
            /\ UNCHANGED notifications
       ELSE /\ Len(notifications) < MaxNotifications
            /\ notifications' = Append(notifications,
                 NotificationRow(Len(notifications) + 1, member_id,
                                 "membership_expiry", FALSE,
                                 Len(notifications) + 1))
            /\ resp' = Resp("membership-expiry", a, 200, "")

\* The rows member_ids.map(...) builds, numbered from `first`, all stamped
\* with the time of the one bulkCreate call.
RECURSIVE ReminderRows(_, _, _)
ReminderRows(member_ids, first, created_at) ==
    IF member_ids = <<>> THEN <<>>
    ELSE <<NotificationRow(first, Head(member_ids), "event_reminder", FALSE,
                           created_at)>>
         \o ReminderRows(Tail(member_ids), first + 1, created_at)

\* notifications.member_id references members.id
\* (member_ids is only checked to be an array: a null entry passes and is
\* stored as a NULL member_id, which the foreign key admits)
ForeignKeyHolds(member_id) == member_id = NULL \/ MemberExists(member_id)

ForeignKeysHold(member_ids) ==
    \A i \in 1..Len(member_ids) : ForeignKeyHolds(member_ids[i])

\* An insert row by row: the entries before the first failing one are kept.
RECURSIVE BulkStoredRowByRow(_)
BulkStoredRowByRow(member_ids) ==
    IF member_ids = <<>> \/ ~ForeignKeyHolds(Head(member_ids)) THEN <<>>
    ELSE <<Head(member_ids)>> \o BulkStoredRowByRow(Tail(member_ids))

\* Notification.bulkCreate(notifications): one multi-row INSERT statement,
\* which stores every entry or, when a row fails, none
BulkStored(member_ids) ==
    IF ForeignKeysHold(member_ids) THEN member_ids ELSE <<>>

\* POST /event-reminder
SendEventReminder(event_id, member_ids) ==
    LET a == [event_id |-> event_id, member_ids |-> member_ids] IN
    /\ UNCHANGED <<members, events, attendances, payments, now, opOnInstance,
                   reqs>>
    /\ IF event_id < 1 \/ Len(member_ids) < 1
       THEN resp' = Resp("event-reminder", a, 400, "validation")
            /\ UNCHANGED notifications
       ELSE IF ~EventExists(event_id)
       THEN resp' = Resp("event-reminder", a, 404, "Event not found")
            /\ UNCHANGED notifications
       ELSE IF ~ForeignKeysHold(member_ids)
       THEN /\ resp' = Resp("event-reminder", a, 500,
                            "Failed to send event reminder")
            /\ notifications' = notifications
                 \o ReminderRows(BulkStored(member_ids),
                                 Len(notifications) + 1, Len(notifications) + 1)
       ELSE /\ Len(notifications) + Len(member_ids) <= MaxNotifications
            /\ notifications' = notifications
                 \o ReminderRows(member_ids, Len(notifications) + 1,
                                 Len(notifications) + 1)
            /\ resp' = [Resp("event-reminder", a, 200, "")
                          EXCEPT !.n = Len(member_ids)]

(* Paged lists: findAndCountAll({ where, order, limit, offset }) *)

\* The orders in which a query may return the rows with ids in S under
\* ORDER BY key DESC: rows with equal keys come in any order.
RECURSIVE Orderings(_, _)
Orderings(S, key) ==
    IF S = {} THEN {<<>>}
    ELSE UNION {{<<x>> \o t : t \in Orderings(S \ {x}, key)} :
                 x \in {y \in S : \A z \in S : key[y] >= key[z]}}

\* LIMIT limit OFFSET offset
Slice(rows, offset, limit) ==
    SubSeq(rows, offset + 1,
           IF offset + limit < Len(rows) THEN offset + limit ELSE Len(rows))

\* Math.ceil(count / limit)
CeilDiv(count, limit) == (count + limit - 1) \div limit

\* The answer of a list route: the page of rows and the pagination block
ListResp(op, a, rows, count) ==
    [Resp(op, a, 200, "") EXCEPT
        !.items = Slice(rows, (a.page - 1) * a.limit, a.limit),
        !.n = count,
        !.pages = CeilDiv(count, a.limit)]

\* The list filter ignoring whom a row is addressed to.
ListWhereAnyMember(n, member_id, status) ==
    status = "" \/ n.status = status

\* whereClause: [Op.or] of member_id and is_broadcast, plus status when the
\* query gives one ("" stands for no status parameter)
ListWhere(n, member_id, status) ==
    /\ AddressedTo(n, member_id)
    /\ status = "" \/ n.status = status

NotificationCreatedAt ==
    [i \in 1..Len(notifications) |-> notifications[i].created_at]

\* GET /?member_id=q&status=&page=&limit=. A negative offset is refused by
\* the database; a NaN member id either makes the query fail or matches the
\* broadcast rows only.
ListNotifications(q, status, page, limit) ==
    LET a == [limit |-> limit, page |-> page, query |-> q, status |-> status]
        op == "list-notifications"
        matching == {i \in 1..Len(notifications) :
                        ListWhere(notifications[i], ParseInt(q), status)}
    IN
    /\ UNCHANGED <<store, now, opOnInstance, reqs>>
    /\ IF q = ""
       THEN resp' = Resp(op, a, 400, "Member ID required")
       ELSE IF (page - 1) * limit < 0
       THEN resp' = Resp(op, a, 500, "Failed to get notifications")
       ELSE \/ /\ ParseInt(q) = NaN
               /\ resp' = Resp(op, a, 500, "Failed to get notifications")
            \/ \E rows \in Orderings(matching, NotificationCreatedAt) :
                  resp' = ListResp(op, a, rows, Cardinality(matching))

ListStatusInputs == {"", "unread"}
PageInputs == {0, 1, 2}
LimitInputs == {1, 2}

ListNotificationsAny ==
    \E q \in {"", "1", "abc"}, st \in ListStatusInputs,
       p \in PageInputs, l \in LimitInputs : ListNotifications(q, st, p, l)

NotifMemberInputs == {0, 1, 9}
NotifDaysInputs == {-1, 3}
NotifEventInputs == {0, 1, 9}
ReminderMemberLists == { <<>>, <<1, 2>>, <<2, 9>>, <<NULL>> }
NotificationIdInputs == {1, 2, 9}
AnnouncementTitles == {"", "News"}

UnreadCountAny == \E q \in QueryInputs : UnreadCount(q)

MarkReadAny == \E id \in NotificationIdInputs : MarkRead(id)

MarkAllReadAny == \E m \in NotifMemberInputs : MarkAllRead(m)

SendAnnouncementAny == \E t \in AnnouncementTitles : SendAnnouncement(t, "Hello")

SendMembershipExpiryAny ==
    \E m \in NotifMemberInputs, d \in NotifDaysInputs : SendMembershipExpiry(m, d)

SendEventReminderAny ==
    \E e \in NotifEventInputs, ms \in ReminderMemberLists : SendEventReminder(e, ms)

-----------------------------------------------------------------------------
(* Admin reads and event management: /app/members, /app/events             *)

\* The response of a handler the gate refused, or of the handler itself.
Gated(op, a, token, handled) ==
    LET gate == AdminGate(token)
    IN  IF gate.status # 0 THEN Resp(op, a, gate.status, gate.error)
        ELSE handled

\* GET /app/members without filters: whereClause = { is_active: true }
AdminListMembers(token) ==
    /\ UNCHANGED <<store, now, opOnInstance, reqs>>
    /\ resp' = Gated("admin-list-members", [token |-> token], token,
         [Resp("admin-list-members", [token |-> token], 200, "") EXCEPT !.n =
            Cardinality({i \in 1..Len(members) : members[i].is_active})])

\* GET /app/members/:id
AdminGetMember(token, id) ==
    LET a == [id |-> id, token |-> token] IN
    /\ UNCHANGED <<store, now, opOnInstance, reqs>>
    /\ resp' = Gated("admin-get-member", a, token,
         IF MemberExists(id) THEN Resp("admin-get-member", a, 200, "")
         ELSE Resp("admin-get-member", a, 404, "Member not found"))

\* The rows of events LEFT OUTER JOIN event_attendances for the events with
\* ids in S: one per attendance row of the event, one for an event with none
RECURSIVE JoinedRows(_)
JoinedRows(S) ==
    IF S = {} THEN 0
    ELSE LET e == CHOOSE x \in S : TRUE
             k == Cardinality({i \in 1..Len(attendances) :
                                  attendances[i].event_id = e})
         IN  (IF k = 0 THEN 1 ELSE k) + JoinedRows(S \ {e})

\* The count always taken over the events alone.
EventCountsDistinct(S) == {Cardinality(S)}

\* The count of findAndCountAll({ where, include: attendances }) without
\* distinct: true. The count query keeps the include and counts Event.id
\* over the joined rows; a Sequelize release that drops a non-required
\* include from the count query counts the events.
EventCounts(S) == {Cardinality(S), JoinedRows(S)}

\* order: [['event_date', 'ASC']]; the seeded events are dated in id order
EventDateRank == [i \in 1..Len(events) |-> 0 - i]

\* GET /app/events?page=&limit= without filters: whereClause = { is_active:
\* true }
AdminListEvents(token, page, limit) ==
    LET a == [limit |-> limit, page |-> page, token |-> token]
        op == "admin-list-events"
        matching == {i \in 1..Len(events) : events[i].is_active}
    IN
    /\ UNCHANGED <<store, now, opOnInstance, reqs>>
    /\ \E rows \in Orderings(matching, EventDateRank),
          count \in EventCounts(matching) :
         resp' = Gated(op, a, token,
                       IF (page - 1) * limit < 0
                       THEN Resp(op, a, 500, "Failed to fetch events")
                       ELSE ListResp(op, a, rows, count))

\* GET /app/events/:id
AdminGetEvent(token, id) ==
    LET a == [id |-> id, token |-> token] IN
    /\ UNCHANGED <<store, now, opOnInstance, reqs>>
    /\ resp' = Gated("admin-get-event", a, token,
         IF EventExists(id) THEN Resp("admin-get-event", a, 200, "")
         ELSE Resp("admin-get-event", a, 404, "Event not found"))

\* title: notEmpty, isLength({ min: 3, max: 200 }); max_attendees: optional
\* (NULL when absent), isInt({ min: 1 })
EventBodyValid(b) ==
    /\ Len(b.title) >= 3 /\ Len(b.title) <= 200
    /\ b.max_attendees = NULL \/ b.max_attendees >= 1

\* The mimetypes of the uploaded part ("none": no file part in the request)
FileInputs == {"none", "image/png", "text/plain"}

\* multer fileFilter: file.mimetype.startsWith('image/')
FileFilter(file) == file = "image/png"

\* upload.single('image') calls next(err) with the fileFilter's error: the
\* route's handler and its try/catch are never entered, the error goes to
\* the application's error middleware (Express's default one answers 500
\* with the error's text, not with the API's JSON).
EscapedError(a, error) == Resp("express-error-handler", a, 500, error)

\* POST /app/events
AdminCreateEvent(token, b) ==
    LET gate == AdminGate(token)
        a == [body |-> b, token |-> token]
    IN
    /\ UNCHANGED <<members, attendances, payments, notifications, now,
                   opOnInstance, reqs>>
    /\ IF gate.status # 0
       THEN resp' = Resp("admin-create-event", a, gate.status, gate.error)
            /\ UNCHANGED events
       ELSE IF b.file # "none" /\ ~FileFilter(b.file)
       THEN resp' = EscapedError(a, "Only image files are allowed")
            /\ UNCHANGED events
       ELSE IF ~EventBodyValid(b)
       THEN resp' = Resp("admin-create-event", a, 400, "validation")
            /\ UNCHANGED events
       ELSE /\ Len(events) < MaxEvents
            /\ events' = Append(events,
                 [id |-> Len(events) + 1, is_active |-> TRUE,
                  max_attendees |-> b.max_attendees])
            /\ resp' = Resp("admin-create-event", a, 201, "")

\* PUT /app/events/:id with max_attendees in the body
AdminUpdateEvent(token, id, b) ==
    LET gate == AdminGate(token)
        a == [body |-> b, id |-> id, token |-> token]
    IN
    /\ UNCHANGED <<members, attendances, payments, notifications, now,
                   opOnInstance, reqs>>
    /\ IF gate.status # 0
       THEN resp' = Resp("admin-update-event", a, gate.status, gate.error)
            /\ UNCHANGED events
       ELSE IF b.max_attendees < 1
       THEN resp' = Resp("admin-update-event", a, 400, "validation")
            /\ UNCHANGED events
       ELSE IF ~EventExists(id)
       THEN resp' = Resp("admin-update-event", a, 404, "Event not found")
            /\ UNCHANGED events
       ELSE /\ events' = [events EXCEPT
                            ![id].max_attendees = b.max_attendees]
            /\ resp' = Resp("admin-update-event", a, 200, "")

(* The admin routes under every bearer token, one request body per route *)

GateListMembers == \E t \in TokenInputs : AdminListMembers(t)

GateGetMember == \E t \in TokenInputs : AdminGetMember(t, 2)

GateListEvents == \E t \in TokenInputs : AdminListEvents(t, 1, 10)

GateGetEvent == \E t \in TokenInputs : AdminGetEvent(t, 9)

GateCreateMember ==
    \E t \in TokenInputs :
        AdminCreateMember(t, CreateMemberInput("new@example.com", "Al", "basic"),
                          "MEM17172000001")

GateUpdateMember ==
    \E t \in TokenInputs, type \in {"premium", "vip"} :
        AdminUpdateMember(t, 2, [membership_type |-> type])

GateDisableMember == \E t \in TokenInputs : AdminDisableMember(t, 1)

GateCreateEvent ==
    \E t \in TokenInputs, title \in {"Gala", "Hi"} :
        AdminCreateEvent(t, [file |-> "none", max_attendees |-> 5,
                             title |-> title])

UploadCreateEvent ==
    \E t \in {NoToken, GenerateToken(1)}, f \in FileInputs,
       title \in {"Gala", "Hi"} :
        AdminCreateEvent(t, [file |-> f, max_attendees |-> 5, title |-> title])

GateUpdateEvent ==
    \E t \in TokenInputs : AdminUpdateEvent(t, 2, [max_attendees |-> 5])

GateRecordAttendance ==
    \E t \in TokenInputs :
        RecordAttendance(t, [event_id |-> 1, member_id |-> 2, notes |-> "late",
                             status |-> "registered", token |-> NoToken])

-----------------------------------------------------------------------------
(* Signing in: POST /api/auth/login and POST /api/auth/otp-login           *)

\* body('identifier').notEmpty(), body('password').notEmpty().isLength({min: 6})
LoginValid(identifier, password) ==
    identifier # "" /\ Len(password) >= 6

\* where: { [Op.or]: [{ email }, { phone }, { member_id }], is_active: true }
LoginMatches(identifier) ==
    {i \in 1..Len(members) :
        /\ \/ members[i].email = identifier
           \/ members[i].phone = identifier
           \/ members[i].member_id = identifier
        /\ members[i].is_active}

\* The password test with the bypass value alone ignored: any password of
\* valid length passes.
PasswordAcceptedAlways(member, password) == TRUE

\* password === 'password123' || await bcrypt.compare(password,
\* member.password || ''): the members table has no password column, so the
\* comparison is against the empty string and fails
PasswordAccepted(member, password) == password = "password123"

\* POST /api/auth/login. Member.sequelize.Op is read on the Sequelize
\* instance; where the instance does not carry Op the where clause is built
\* under the key "undefined" and the query throws. findOne returns any one
\* of the matching rows.
Login(identifier, password) ==
    LET a == [identifier |-> identifier, password |-> password] IN
    /\ UNCHANGED <<store, now, opOnInstance, reqs>>
    /\ IF ~LoginValid(identifier, password)
       THEN resp' = Resp("login", a, 400, "validation")
       ELSE IF ~opOnInstance
       THEN resp' = Resp("login", a, 500, "Login failed")
       ELSE IF LoginMatches(identifier) = {}
       THEN resp' = Resp("login", a, 401, "Invalid credentials")
       ELSE \E i \in LoginMatches(identifier) :
              IF members[i].status # "active"
              THEN resp' = Resp("login", a, 401, "Membership is not active")
              ELSE IF ~PasswordAccepted(members[i], password)
              THEN resp' = Resp("login", a, 401, "Invalid credentials")
              ELSE resp' = RespWithToken("login", a, 200, i)

\* body('phone').notEmpty(), body('otp').notEmpty().isLength({min: 4, max: 6})
OtpLoginValid(phone, otp) ==
    phone # "" /\ Len(otp) >= 4 /\ Len(otp) <= 6

\* The lookup without the is_active condition.
PhoneMatchesAnyRow(phone) ==
    {i \in 1..Len(members) : members[i].phone = phone}

\* where: { phone, is_active: true }
PhoneMatches(phone) ==
    {i \in 1..Len(members) : members[i].phone = phone /\ members[i].is_active}

\* POST /api/auth/otp-login
OtpLogin(phone, otp) ==
    LET a == [otp |-> otp, phone |-> phone] IN
    /\ UNCHANGED <<store, now, opOnInstance, reqs>>
    /\ IF ~OtpLoginValid(phone, otp)
       THEN resp' = Resp("otp-login", a, 400, "validation")
       ELSE IF PhoneMatches(phone) = {}
       THEN resp' = Resp("otp-login", a, 401, "Phone number not registered")
       ELSE \E i \in PhoneMatches(phone) :
              IF otp # "1234"
              THEN resp' = Resp("otp-login", a, 400, "Invalid OTP")
              ELSE resp' = RespWithToken("otp-login", a, 200, i)

IdentifierInputs ==
    {"", "jane@example.com", "+1002", "MEM1003", "+1003", "nobody"}

PasswordInputs == {"password123", "letmein", "abc"}

PhoneInputs == {"", "+1002", "+1003", "+1999"}

OtpInputs == {"1234", "9999", "12"}

LoginAny ==
    \E id \in IdentifierInputs, pw \in PasswordInputs : Login(id, pw)

OtpLoginAny == \E ph \in PhoneInputs, otp \in OtpInputs : OtpLogin(ph, otp)

-----------------------------------------------------------------------------
(* Searching members: GET /app/members?search=                             *)

\* The characters of the strings that occur as column values and as search
\* terms.
Chars ==
    "" :> <<>>
    @@ "Jane" :> <<"J", "a", "n", "e">>
    @@ "Smith" :> <<"S", "m", "i", "t", "h">>
    @@ "jane@example.com" :> <<"j", "a", "n", "e", "@", "e", "x", "a", "m", "p", "l", "e", ".", "c", "o", "m">>
    @@ "MEM1002" :> <<"M", "E", "M", "1", "0", "0", "2">>
    @@ "Mike" :> <<"M", "i", "k", "e">>
    @@ "Johnson" :> <<"J", "o", "h", "n", "s", "o", "n">>
    @@ "mike@example.com" :> <<"m", "i", "k", "e", "@", "e", "x", "a", "m", "p", "l", "e", ".", "c", "o", "m">>
    @@ "MEM1003" :> <<"M", "E", "M", "1", "0", "0", "3">>
    @@ "jo" :> <<"j", "o">>
    @@ "SMITH" :> <<"S", "M", "I", "T", "H">>
    @@ "_" :> <<"_">>
    @@ "mem1003" :> <<"m", "e", "m", "1", "0", "0", "3">>
    @@ "zzz" :> <<"z", "z", "z">>

\* Lower-casing of the upper-case letters that occur.
LowerOf ==
    "E" :> "e" @@ "H" :> "h" @@ "I" :> "i" @@ "J" :> "j" @@ "M" :> "m"
    @@ "S" :> "s" @@ "T" :> "t"

Lower(c) == IF c \in DOMAIN LowerOf THEN LowerOf[c] ELSE c

\* The search with the wildcards of the term taken literally.
RECURSIVE ILikeLiteral(_, _)
ILikeLiteral(text, pattern) ==
    IF pattern = <<>> THEN text = <<>>
    ELSE IF Head(pattern) = "%"
         THEN \/ ILikeLiteral(text, Tail(pattern))
              \/ text # <<>> /\ ILikeLiteral(Tail(text), pattern)
    ELSE /\ text # <<>>
         /\ Lower(Head(pattern)) = Lower(Head(text))
         /\ ILikeLiteral(Tail(text), Tail(pattern))

\* text LIKE pattern without regard to case, on character sequences: % stands
\* for any run of characters, _ for any one character
RECURSIVE ILike(_, _)
ILike(text, pattern) ==
    IF pattern = <<>> THEN text = <<>>
    ELSE IF Head(pattern) = "%"
         THEN \/ ILike(text, Tail(pattern))
              \/ text # <<>> /\ ILike(Tail(text), pattern)
    ELSE /\ text # <<>>
         /\ Head(pattern) = "_" \/ Lower(Head(pattern)) = Lower(Head(text))
         /\ ILike(Tail(text), Tail(pattern))

\* { [Op.iLike]: `%${search}%` }: the term goes into the pattern as it is
SearchPattern(search) == <<"%">> \o Chars[search] \o <<"%">>

\* whereClause of the member list: is_active, the search over four columns,
\* status and membership_type when given ("" stands for an absent parameter;
\* zone_id is not a column of the model)
\* The member list without the soft-delete condition.
MemberListWhereAnyRow(row, q) ==
    /\ q.status # "" => row.status = q.status
    /\ q.membership_type # "" => row.membership_type = q.membership_type

MemberListWhere(row, q) ==
    /\ row.is_active
    /\ q.search # "" =>
         \E text \in {row.first_name, row.last_name, row.email, row.member_id} :
            ILike(Chars[text], SearchPattern(q.search))
    /\ q.status # "" => row.status = q.status
    /\ q.membership_type # "" => row.membership_type = q.membership_type

\* created_at of the member rows: the seeded rows come from one bulkCreate
MemberCreatedAt ==
    [i \in 1..Len(members) |-> IF i <= 2 THEN 0 ELSE i]

\* GET /app/members with query parameters
AdminSearchMembers(token, q) ==
    LET a == [limit |-> q.limit, membership_type |-> q.membership_type,
              page |-> q.page, search |-> q.search, status |-> q.status,
              token |-> token]
        op == "admin-search-members"
        matching == {i \in 1..Len(members) : MemberListWhere(members[i], q)}
    IN
    /\ UNCHANGED <<store, now, opOnInstance, reqs>>
    /\ \E rows \in Orderings(matching, MemberCreatedAt) :
         resp' = Gated(op, a, token,
                       IF (q.page - 1) * q.limit < 0
                       THEN Resp(op, a, 500, "Failed to fetch members")
                       ELSE ListResp(op, a, rows, Cardinality(matching)))

SearchTerms == {"", "jo", "SMITH", "_", "mem1003", "zzz"}

AdminSearchMembersAny ==
    \E t \in {NoToken, GenerateToken(1)}, s \in SearchTerms,
       st \in {"", "active"}, type \in {"", "basic"}, l \in LimitInputs :
        AdminSearchMembers(t, [limit |-> l, membership_type |-> type,
                               page |-> 1, search |-> s, status |-> st])

-----------------------------------------------------------------------------
(* Payment history: GET /api/members/payments, and the lists page by page  *)

\* order: [['payment_date', 'DESC']]; every payment row is written by a call
\* of its own, later rows are dated later
PaymentDate == [i \in 1..Len(payments) |-> i]

\* GET /api/members/payments?member_id=q&page=&limit=
ListPayments(q, page, limit) ==
    LET a == [limit |-> limit, page |-> page, query |-> q]
        op == "list-payments"
        matching == {i \in 1..Len(payments) :
                        SqlEquals(payments[i].member_id, ParseInt(q))}
    IN
    /\ UNCHANGED <<store, now, opOnInstance, reqs>>
    /\ IF q = ""
       THEN resp' = Resp(op, a, 400, "Member ID required")
       ELSE IF (page - 1) * limit < 0
       THEN resp' = Resp(op, a, 500, "Failed to get payment history")
       ELSE \E rows \in Orderings(matching, PaymentDate) :
              resp' = ListResp(op, a, rows, Cardinality(matching))

PagePayments ==
    \E q \in {"", "1"}, p \in PageInputs, l \in LimitInputs :
        ListPayments(q, p, l)

PageNotifications ==
    \E p \in PageInputs, l \in LimitInputs : ListNotifications("2", "", p, l)

PageEvents ==
    \E t \in {NoToken, GenerateToken(1)}, p \in PageInputs, l \in LimitInputs :
        AdminListEvents(t, p, l)

PageMembers ==
    \E p \in PageInputs, l \in LimitInputs :
        AdminSearchMembers(GenerateToken(1),
                           [limit |-> l, membership_type |-> "", page |-> p,
                            search |-> "", status |-> ""])

\* The requests that fill the tables the lists read.
PageRenew ==
    Renew([amount |-> 9999, member_id |-> 1, membership_type |-> "premium",
           payment_method |-> "card"])

PageRegisterEvent == \E mem \in {1, 2} : RegisterEvent([event_id |-> 2, member_id |-> mem])

PageRemind == SendEventReminder(1, <<2, 2>>)

-----------------------------------------------------------------------------
(* Member writes, one step per awaited store call                          *)

\* POST /api/auth/register up to the first await: the validators
RegisterStart(s, b, gen) ==
    LET a == [body |-> b, gen |-> gen]
    IN
    /\ SlotFree(s)
    /\ UNCHANGED <<store, now, opOnInstance>>
    /\ IF ~RegisterValid(b)
       THEN resp' = Resp("register", a, 400, "validation") /\ UNCHANGED reqs
       ELSE /\ resp' = NoResp
            /\ reqs' = reqs \cup
                 {[args |-> a, op |-> "register", pc |-> "find", slot |-> s]}

\* await Member.findOne({ where: { email } })
RegisterFind(r) ==
    /\ r \in reqs /\ r.op = "register" /\ r.pc = "find"
    /\ UNCHANGED <<store, now, opOnInstance>>
    /\ IF EmailRegistered(NormalizeEmail(r.args.body.email))
       THEN /\ resp' = Resp("register", r.args, 400, "Email already registered")
            /\ reqs' = reqs \ {r}
       ELSE /\ resp' = NoResp
            /\ reqs' = (reqs \ {r}) \cup {[r EXCEPT !.pc = "create"]}

\* await bcrypt.hash(...), then await Member.create(...); a unique constraint
\* error lands in catch
RegisterCreate(r) ==
    LET b == r.args.body
        row == NewMember([email |-> NormalizeEmail(b.email),
                          expiry_date |-> SetFullYearPlusOne(Today),
                          first_name |-> b.first_name,
                          last_name |-> b.last_name, member_id |-> r.args.gen,
                          membership_type |-> "basic", phone |-> b.phone,
                          status |-> "active"])
    IN
    /\ r \in reqs /\ r.op = "register" /\ r.pc = "create"
    /\ UNCHANGED <<events, attendances, payments, notifications, now,
                   opOnInstance>>
    /\ reqs' = reqs \ {r}
    /\ IF UniqueViolation(row, 0)
       THEN resp' = Resp("register", r.args, 400,
                         "Email or member ID already exists")
            /\ UNCHANGED members
       ELSE /\ Len(members) < MaxMembers
            /\ members' = Append(members, row)
            /\ resp' = RespWithToken("register", r.args, 201, row.id)

\* PUT /admin/members/:id up to Member.findByPk: the handler keeps the
\* instance it loaded
UpdStart(s, token, id, b) ==
    LET gate == AdminGate(token)
        a == [body |-> b, id |-> id, token |-> token]
        op == "admin-update-member"
    IN
    /\ SlotFree(s)
    /\ UNCHANGED <<store, now, opOnInstance>>
    /\ IF gate.status # 0
       THEN resp' = Resp(op, a, gate.status, gate.error) /\ UNCHANGED reqs
       ELSE IF ~UpdateMemberValid(b)
       THEN resp' = Resp(op, a, 400, "validation") /\ UNCHANGED reqs
       ELSE IF ~MemberExists(id)
       THEN resp' = Resp(op, a, 404, "Member not found") /\ UNCHANGED reqs
       ELSE /\ resp' = NoResp
            /\ reqs' = reqs \cup
                 {[args |-> a, found |-> members[id], op |-> op,
                   pc |-> "write", slot |-> s]}

\* instance.update(values) saves the fields that differ on the instance; the
\* other columns keep what the table holds by then
SavedRow(current, loaded, values) ==
    LET instance == UpdatedMember(loaded, values)
    IN  [f \in DOMAIN current |->
            IF instance[f] # loaded[f] THEN instance[f] ELSE current[f]]

\* await member.update(updateData); a unique constraint error lands in catch
UpdWrite(r) ==
    LET id == r.args.id
        row == SavedRow(members[id], r.found, SanitizedUpdate(r.args.body))
    IN
    /\ r \in reqs /\ r.op = "admin-update-member" /\ r.pc = "write"
    /\ UNCHANGED <<events, attendances, payments, notifications, now,
                   opOnInstance>>
    /\ reqs' = reqs \ {r}
    /\ IF UniqueViolation(row, id)
       THEN resp' = Resp("admin-update-member", r.args, 400,
                         "Email already exists")
            /\ UNCHANGED members
       ELSE /\ members' = [members EXCEPT ![id] = row]
            /\ resp' = Resp("admin-update-member", r.args, 200, "")

RaceRegisterBodies ==
    { RegisterInput("new@example.com", "Al", "secret1"),
      RegisterInput("Jane@Example.com", "Al", "secret1") }

RaceCreateBodies == { CreateMemberInput("new@example.com", "Al", "basic") }

RaceUpdateBodies ==
    { [email |-> "new@example.com"], [email |-> "Jane@Example.com"],
      [member_id |-> "MEM1002"] }

RegisterStartAny ==
    \E s \in Slots, b \in RaceRegisterBodies, gen \in GeneratedMemberIds :
        RegisterStart(s, b, gen)

RegisterFindAny == \E r \in reqs : RegisterFind(r)
RegisterCreateAny == \E r \in reqs : RegisterCreate(r)

RaceCreateMember ==
    \E t \in {NoToken, GenerateToken(1)}, b \in RaceCreateBodies,
       gen \in {"MEM17172000001", "MEM1003"} :
        AdminCreateMember(t, b, gen)

UpdStartAny ==
    \E s \in Slots, id \in {1, 2, 9}, b \in RaceUpdateBodies :
        UpdStart(s, GenerateToken(1), id, b)

UpdWriteAny == \E r \in reqs : UpdWrite(r)

-----------------------------------------------------------------------------
(* The QR payload over a member's life                                     *)

\* req.body of PUT /admin/members/:id is handed to member.update whole
\* (updateData = { ...req.body }): any column can be named
QrUpdateBodies ==
    { [first_name |-> "Bob"], [phone |-> "+1009"],
      [membership_type |-> "premium"], [qr_code |-> QrPayload("MEM1002", "Jane", "Smith", "vip")] }

QrRegister ==
    Register(RegisterInput("new@example.com", "Al", "secret1"),
             "MEM17172000001")

QrCreateMember ==
    AdminCreateMember(GenerateToken(1),
                      CreateMemberInput("new@example.com", "Al", "basic"),
                      "MEM17172000002")

QrUpdateMember ==
    \E id \in {2, 3}, b \in QrUpdateBodies :
        AdminUpdateMember(GenerateToken(1), id, b)

QrRenew ==
    \E t \in {"basic", "vip"} :
        Renew([amount |-> 0, member_id |-> 3, membership_type |-> t,
               payment_method |-> "card"])

QrDisableMember == AdminDisableMember(GenerateToken(1), 3)

-----------------------------------------------------------------------------
(* Every writing route, one or two requests each                           *)

LifeTokens == {NoToken, GenerateToken(1), GenerateToken(2)}

LifeRegister ==
    \E e \in {"new@example.com", "Jane@Example.com"} :
        Register(RegisterInput(e, "Al", "secret1"), "MEM17172000001")

LifeUpdateMember ==
    \E id \in {2, 9},
       b \in {[first_name |-> "A"], [email |-> "Jane@Example.com"]} :
        AdminUpdateMember(GenerateToken(1), id, b)

LifeDisableMember == \E t \in LifeTokens : AdminDisableMember(t, 2)

LifeListMembers ==
    \E t \in LifeTokens :
        AdminSearchMembers(t, [limit |-> 10, membership_type |-> "",
                               page |-> 1, search |-> "", status |-> ""])

LifeRenew ==
    \E mem \in {2, 9}, type \in {"basic", "gold"} :
        Renew([amount |-> 0, member_id |-> mem, membership_type |-> type,
               payment_method |-> "card"])

LifeRegisterEvent ==
    \E mem \in {1, 2}, e \in {1, 9} :
        RegisterEvent([event_id |-> e, member_id |-> mem])

LifeRecordAttendance ==
    \E st \in {"registered", "present"} :
        RecordAttendance(GenerateToken(1),
                         [event_id |-> 1, member_id |-> 1, notes |-> "",
                          status |-> st, token |-> NoToken])

LifeMarkRead == \E id \in {1, 9} : MarkRead(id)

LifeMarkAllRead == \E mem \in {0, 2} : MarkAllRead(mem)

LifeAnnounce == \E title \in {"", "News"} : SendAnnouncement(title, "Hello")

LifeRemind == \E e \in {1, 9} : SendEventReminder(e, <<9>>)

LifeCreateEvent ==
    \E title \in {"Gala", "Hi"} :
        AdminCreateEvent(GenerateToken(1),
                         [file |-> "none", max_attendees |-> 5,
                          title |-> title])

-----------------------------------------------------------------------------
(* POST /api/members/renewal, one step per awaited store call              *)

\* The validators, await Member.findByPk(member_id) and the new expiry
\* computed from the instance just loaded
RenStart(s, a) ==
    /\ SlotFree(s)
    /\ UNCHANGED <<store, now, opOnInstance>>
    /\ IF ~RenewValid(a)
       THEN resp' = Resp("renew", a, 400, "validation") /\ UNCHANGED reqs
       ELSE IF ~MemberExists(a.member_id)
       THEN resp' = Resp("renew", a, 404, "Member not found") /\ UNCHANGED reqs
       ELSE /\ resp' = NoResp
            /\ reqs' = reqs \cup
                 {[args |-> a,
                   expiry_date |-> NewExpiry(members[a.member_id]),
                   found |-> members[a.member_id], op |-> "renew",
                   pc |-> "pay", slot |-> s]}

\* await Payment.create(...)
RenPay(r) ==
    /\ r \in reqs /\ r.op = "renew" /\ r.pc = "pay"
    /\ Len(payments) < MaxPayments
    /\ payments' = Append(payments, RenewalPayment(r.args))
    /\ reqs' = (reqs \ {r}) \cup {[r EXCEPT !.pc = "update"]}
    /\ resp' = NoResp
    /\ UNCHANGED <<members, events, attendances, notifications, now,
                   opOnInstance>>

\* await member.update({ membership_type, status, expiry_date }) on the
\* instance loaded at the start
RenUpdate(r) ==
    /\ r \in reqs /\ r.op = "renew" /\ r.pc = "update"
    /\ members' = [members EXCEPT ![r.args.member_id] =
          SavedRow(members[r.args.member_id], r.found,
                   [expiry_date |-> r.expiry_date,
                    membership_type |-> r.args.membership_type,
                    status |-> "active"])]
    /\ reqs' = reqs \ {r}
    /\ resp' = Resp("renew", r.args, 200, "")
    /\ UNCHANGED <<events, attendances, payments, notifications, now,
                   opOnInstance>>

RenStartAny ==
    \E s \in Slots, mem \in {2, 9}, type \in {"basic", "premium"},
       amt \in {0, 9999} :
        RenStart(s, [amount |-> amt, member_id |-> mem,
                     membership_type |-> type, payment_method |-> "card"])

RenPayAny == \E r \in reqs : RenPay(r)
RenUpdateAny == \E r \in reqs : RenUpdate(r)

-----------------------------------------------------------------------------
(* A basic member, the renewal route and the sign-in routes                *)

InitEscalate == Seeded({20241231}, {"active"}, {"+1003"}, {TRUE, FALSE})

EscRenew ==
    \E type \in {"basic", "vip", "lifetime"}, amt \in {0, -500} :
        Renew([amount |-> amt, member_id |-> 2, membership_type |-> type,
               payment_method |-> "card"])

EscLogin ==
    \E id \in {"MEM1003", "mike@example.com"},
       pw \in {"password123", "letmein"} : Login(id, pw)

EscOtpLogin == OtpLogin("+1003", "1234")

\* The client presents the token it has just been handed
EscListMembers ==
    /\ resp.token # NoToken
    /\ AdminListMembers(resp.token)

-----------------------------------------------------------------------------
(* Disabling a member who holds a token                                    *)

OffDisableMember ==
    \E t \in TokenInputs, id \in {1, 2} : AdminDisableMember(t, id)

\* updateData = { ...req.body }: is_active is writable through the update
OffEnableMember ==
    AdminUpdateMember(GenerateToken(1), 2, [is_active |-> TRUE])

OffGetMember == \E t \in TokenInputs : AdminGetMember(t, 1)

OffLogin ==
    \E id \in {"MEM1003", "mike@example.com", "+1003", "+1002"} :
        Login(id, "password123")

OffOtpLogin == \E ph \in {"+1002", "+1003"} : OtpLogin(ph, "1234")

-----------------------------------------------------------------------------
(* Registering, then signing in with the registered password               *)

TripPasswords == {"secret1", "password123", "letmein"}

TripRegister ==
    \E fn \in {"Al", "Bo"}, pw \in TripPasswords, gen \in GeneratedMemberIds :
        Register(RegisterInput("new@example.com", fn, pw), gen)

TripLogin ==
    \E id \in {"new@example.com", "mike@example.com"}, pw \in TripPasswords :
        Login(id, pw)

-----------------------------------------------------------------------------
(* Renewing a disabled member                                              *)

FrameRenew ==
    \E mem \in {1, 2}, type \in {"basic", "vip"} :
        Renew([amount |-> 9999, member_id |-> mem, membership_type |-> type,
               payment_method |-> "card"])

-----------------------------------------------------------------------------
(* Specifications                                                          *)

NextRenew == RenewAny \/ Tick

SpecRenew == InitRenew /\ [][NextRenew]_vars

NextReg == RegisterEventAny \/ RecordAttendanceAny

SpecReg == Init /\ [][NextReg]_vars

NextRace == RegStartAny \/ RegCountAny \/ RegFindAny \/ RegCreateAny

SpecRace == Init /\ [][NextRace]_vars

NextMembers ==
    RegisterAny \/ AdminCreateMemberAny \/ AdminUpdateMemberAny
        \/ AdminDisableMemberAny

SpecMembers == Init /\ [][NextMembers]_vars

NextNotif ==
    UnreadCountAny \/ MarkReadAny \/ MarkAllReadAny \/ SendAnnouncementAny
        \/ SendMembershipExpiryAny \/ SendEventReminderAny
        \/ ListNotificationsAny

SpecNotif == Init /\ [][NextNotif]_vars

NextAdmin ==
    \/ GateListMembers \/ GateGetMember \/ GateListEvents \/ GateGetEvent
    \/ GateCreateMember \/ GateUpdateMember \/ GateDisableMember
    \/ GateCreateEvent \/ GateUpdateEvent \/ GateRecordAttendance
    \/ Tick

SpecAdmin == Init /\ [][NextAdmin]_vars

NextAuth == LoginAny \/ OtpLoginAny \/ AdminDisableMemberAny \/ Tick

SpecAuth == InitAuth /\ [][NextAuth]_vars

NextSearch ==
    AdminSearchMembersAny \/ AdminDisableMemberAny \/ AdminUpdateMemberAny

SpecSearch == Init /\ [][NextSearch]_vars

NextPages ==
    \/ PagePayments \/ PageNotifications \/ PageEvents \/ PageMembers
    \/ PageRenew \/ PageRegisterEvent \/ PageRemind \/ SendAnnouncementAny

SpecPages == Init /\ [][NextPages]_vars

NextRoutes ==
    \/ UploadCreateEvent \/ GateUpdateEvent \/ GateRecordAttendance
    \/ LoginAny \/ UnreadCountAny \/ RegisterEventAny

SpecRoutes == Init /\ [][NextRoutes]_vars

NextUpsert ==
    \/ RecStartAny \/ RecFindAny \/ RecWriteAny
    \/ RegStartSame \/ RegCountAny \/ RegFindAny \/ RegCreateAny
    \/ Tick

SpecUpsert == Init /\ [][NextUpsert]_vars

NextMemberRace ==
    \/ RegisterStartAny \/ RegisterFindAny \/ RegisterCreateAny
    \/ RaceCreateMember
    \/ UpdStartAny \/ UpdWriteAny

SpecMemberRace == Init /\ [][NextMemberRace]_vars

NextQr ==
    \/ QrRegister \/ QrCreateMember \/ QrUpdateMember \/ QrRenew
    \/ QrDisableMember

SpecQr == Init /\ [][NextQr]_vars

NextLife ==
    \/ LifeRegister \/ LifeUpdateMember \/ LifeDisableMember
    \/ LifeListMembers \/ LifeRenew \/ LifeRegisterEvent
    \/ LifeRecordAttendance \/ LifeMarkRead \/ LifeMarkAllRead
    \/ LifeAnnounce \/ LifeRemind \/ LifeCreateEvent

SpecLife == Init /\ [][NextLife]_vars

NextRenewRace == RenStartAny \/ RenPayAny \/ RenUpdateAny

SpecRenewRace == Init /\ [][NextRenewRace]_vars

NextEscalate == EscRenew \/ EscLogin \/ EscOtpLogin \/ EscListMembers

SpecEscalate == InitEscalate /\ [][NextEscalate]_vars

NextOff ==
    \/ OffDisableMember \/ OffEnableMember \/ OffGetMember
    \/ OffLogin \/ OffOtpLogin \/ Tick

SpecOff == InitAuth /\ [][NextOff]_vars

NextTrip == TripRegister \/ TripLogin \/ Tick

SpecTrip == Init /\ [][NextTrip]_vars

NextFrame ==
    \/ FrameRenew \/ OffDisableMember \/ OffGetMember \/ OffLogin
    \/ OffOtpLogin

SpecFrame == Init /\ [][NextFrame]_vars

-----------------------------------------------------------------------------
(* Claims                                                                  *)

PaymentsOf(ps, m) == {i \in 1..Len(ps) : ps[i].member_id = m}

MaxDate(a, b) == IF a >= b THEN a ELSE b

\* C1: a renewal request with valid fields for an existing member is answered
\* 200, and in the state after it the member's expiry_date is
\* max(today, old expiry_date) + 1 year (old 2024-01-01 renewed on 2024-06-01
\* gives 2025-06-01), membership_type is the requested one, status is active,
\* and the member has exactly one more Payment row, the new one being a
\* completed payment of type renewal with the given amount.
C1_RenewContract ==
    [][ (/\ resp'.op = "renew"
         /\ resp'.args.member_id \in 1..Len(members)
         /\ resp'.args.membership_type \in MembershipTypes
         /\ resp'.args.payment_method \in PaymentMethods
         /\ resp'.args.amount >= 0)
        => LET a == resp'.args
               m == a.member_id
               old == members[m].expiry_date
               new == PaymentsOf(payments', m) \ PaymentsOf(payments, m)
           IN  /\ resp'.status = 200
               /\ members'[m].expiry_date = AddYear(MaxDate(Today, old))
               /\ (old = 20240101 /\ Today = 20240601
                     => members'[m].expiry_date = 20250601)
               /\ members'[m].membership_type = a.membership_type
               /\ members'[m].status = "active"
               /\ PaymentsOf(payments, m) \subseteq PaymentsOf(payments', m)
               /\ Cardinality(new) = 1
               /\ \A i \in new : /\ payments'[i].status = "completed"
                                 /\ payments'[i].payment_type = "renewal"
                                 /\ payments'[i].amount = a.amount
      ]_vars

\* C1 witness: the scenario of the specification has happened (premium
\* renewal by card of 99.99 on 2024-06-01, expiry now 2025-06-01), and also an
\* early renewal that extended a window still open.
C1_Witness ==
    /\ resp.op = "renew" /\ resp.status = 200
    /\ resp.args.membership_type = "premium" /\ resp.args.amount = 9999
    /\ Today = 20240601
    /\ members[resp.args.member_id].expiry_date = 20250601
    /\ Cardinality(PaymentsOf(payments, resp.args.member_id)) = 1

\* The number of rows of an event in status registered, counted from the table.
RegisteredRows(atts, e) ==
    {i \in 1..Len(atts) : atts[i].event_id = e /\ atts[i].status = "registered"}

PairRows(atts, m, e) ==
    {i \in 1..Len(atts) : atts[i].event_id = e /\ atts[i].member_id = m}

\* C2: a register-event request of an existing member for an existing event
\* with a non-null max_attendees is answered 400 'Event is full' and inserts
\* no attendance row whenever the event's rows in status registered number at
\* least max_attendees; rows in another status are not counted, so the
\* capacity error is given only then.
C2_CapacityRejects ==
    [][ (/\ resp'.op = "register-event"
         /\ resp'.args.member_id \in 1..Len(members)
         /\ resp'.args.event_id \in 1..Len(events))
        => LET e == resp'.args.event_id
               max == events[e].max_attendees
               full == max # NULL
                         /\ Cardinality(RegisteredRows(attendances, e)) >= max
           IN  /\ full => /\ resp'.status = 400
                          /\ resp'.error = "Event is full"
                          /\ attendances' = attendances
               /\ resp'.error = "Event is full" => full
      ]_vars

\* C2 witness: event 1 has one place, member 1 holds it as registered, and
\* member 2 has just been refused with the capacity error and has no row.
C2_Witness ==
    /\ resp.op = "register-event" /\ resp.status = 400
    /\ resp.error = "Event is full"
    /\ resp.args.member_id = 2 /\ resp.args.event_id = 1
    /\ events[1].max_attendees = 1
    /\ \E i \in RegisteredRows(attendances, 1) : attendances[i].member_id = 1
    /\ PairRows(attendances, 2, 1) = {}

\* C3 (as stated): once an attendance row exists for a member and an event, a
\* further register-event for the pair is answered 400 'Already registered
\* for this event' and adds no row, whatever the event's registered count.
C3_DuplicateError ==
    [][ (/\ resp'.op = "register-event"
         /\ resp'.args.member_id \in 1..Len(members)
         /\ resp'.args.event_id \in 1..Len(events)
         /\ PairRows(attendances, resp'.args.member_id, resp'.args.event_id) # {})
        => /\ resp'.status = 400
           /\ resp'.error = "Already registered for this event"
           /\ attendances' = attendances
      ]_vars

\* C4: a register-event request that has run its capacity count and its
\* duplicate lookup is not checked again: its insert succeeds (200, one new
\* row in status registered) whenever no row exists for its pair, however
\* many registered rows the event has by then.  So two requests of different
\* members that both counted before either inserted are both admitted to the
\* last place, and the excess over max_attendees stays below the number of
\* requests in flight together.
C4_RaceOverAdmits ==
    /\ [][ \A r \in reqs :
             (/\ r.pc = "create" /\ r \notin reqs'
              /\ PairRows(attendances, r.args.member_id, r.args.event_id) = {})
             => /\ resp'.status = 200
                /\ Len(attendances') = Len(attendances) + 1
                /\ attendances'[Len(attendances')].status = "registered"
                /\ attendances'[Len(attendances')].member_id = r.args.member_id
                /\ attendances'[Len(attendances')].event_id = r.args.event_id
         ]_vars
    /\ [](\A e \in 1..Len(events) :
             events[e].max_attendees # NULL =>
               Cardinality(RegisteredRows(attendances, e))
                 < events[e].max_attendees + Cardinality(Slots))

\* C4 witness: both requests have completed and event 1, which has one place,
\* has two rows in status registered, of two different members.
C4_Witness ==
    /\ reqs = {}
    /\ resp.op = "register-event" /\ resp.status = 200
    /\ Cardinality(RegisteredRows(attendances, 1)) > events[1].max_attendees
    /\ \A i, j \in RegisteredRows(attendances, 1) :
          i # j => attendances[i].member_id # attendances[j].member_id

EmailsOf(ms) == {ms[i].email : i \in 1..Len(ms)}

CreateOps == {"register", "admin-create-member"}

UniquenessErrors ==
    {"Email already registered", "Email or member ID already exists"}

\* The request of the step passes what precedes the handler's own work: the
\* admin gate (admin create only) and the field validators.
CreateRequestAdmitted ==
    IF resp'.op = "register" THEN RegisterValid(resp'.args.body)
    ELSE /\ AdminGate(resp'.args.token).status = 0
         /\ CreateMemberValid(resp'.args.body)

\* C5: a create request (admin create or mobile register) whose email, as
\* the validators normalise it, is already the email of a member row leaves
\* the member table unchanged and is never answered 201; when the request
\* is otherwise admissible (authorised, valid fields) the answer is 400 with
\* one of the two uniqueness errors.
C5_DuplicateEmailRejected ==
    [][(/\ resp'.op \in CreateOps
        /\ NormalizeEmail(resp'.args.body.email) \in EmailsOf(members))
       => /\ members' = members
          /\ resp'.status # 201
          /\ CreateRequestAdmitted
               => resp'.status = 400 /\ resp'.error \in UniquenessErrors]_vars

\* An admin create with the mixed-case spelling of a seeded address has been
\* refused on the unique index.
C5_Witness ==
    /\ resp.op = "admin-create-member"
    /\ resp.args.body.email = "Jane@Example.com"
    /\ resp.status = 400
    /\ resp.error = "Email or member ID already exists"
    /\ Len(members) = 2

\* The member a query string names when it is the decimal form of an id.
MemberIdOfQuery == [q \in {"1", "2", "9"} |->
                      CASE q = "1" -> 1 [] q = "2" -> 2 [] q = "9" -> 9]

UnreadRowsFor(m) ==
    {i \in 1..Len(notifications) :
        /\ notifications[i].status = "unread"
        /\ notifications[i].member_id = m \/ notifications[i].is_broadcast = TRUE}

\* C6: in every state, the answer of unread-count for a member id is 200 and
\* carries the number of notification rows with status unread whose
\* member_id is that id or whose is_broadcast is true.
C6_UnreadCount ==
    (resp.op = "unread-count" /\ resp.args.query \in DOMAIN MemberIdOfQuery)
    => /\ resp.status = 200
       /\ resp.n = Cardinality(UnreadRowsFor(MemberIdOfQuery[resp.args.query]))

\* Member 2 asked with three rows stored: an unread broadcast, an unread row
\* of its own and a row that is not counted.
C6_Witness ==
    /\ resp.op = "unread-count" /\ resp.args.query = "2" /\ resp.n = 2
    /\ Len(notifications) = 3
    /\ \E i \in 1..3 : notifications[i].is_broadcast
                         /\ notifications[i].status = "unread"
    /\ \E i \in 1..3 : notifications[i].member_id = 2
                         /\ notifications[i].status = "unread"

AdminOps ==
    {"admin-list-members", "admin-get-member", "admin-list-events",
     "admin-get-event", "admin-create-member", "admin-update-member",
     "admin-disable-member", "admin-create-event", "admin-update-event",
     "record-attendance"}

\* What the request's token shows about itself and about the member rows
\* ms, at clock reading h (hours).
TokenSigned(t) == t # NoToken /\ t.sig = "good"
TokenFresh(t, h) == h < t.iat + 24
TokenMemberActive(t, ms) ==
    t.memberId \in 1..Len(ms) /\ ms[t.memberId].is_active = TRUE
TokenElevated(t, ms) ==
    ms[t.memberId].membership_type \in {"vip", "lifetime"}

\* C7: on an admin route, a response other than 401/403 (the handler ran)
\* and any change of the store happen only for a correctly signed,
\* unexpired token of an existing member with is_active true whose
\* membership_type when the request is served is vip or lifetime; every
\* other request is answered 401 or 403 and leaves the store as it was.
C7_AdminGate ==
    [][resp'.op \in AdminOps =>
        LET t == resp'.args.token
            allowed == /\ TokenSigned(t)
                       /\ TokenFresh(t, NowHours)
                       /\ TokenMemberActive(t, members)
                       /\ TokenElevated(t, members)
        IN  /\ (resp'.status \notin {401, 403} \/ store' # store) => allowed
            /\ ~allowed => resp'.status \in {401, 403} /\ store' = store]_vars

\* Member 2, seeded basic and promoted to vip since, has changed the store
\* through an admin route with its own token.
C7_Witness ==
    /\ resp.op = "admin-create-event"
    /\ resp.status = 201
    /\ resp.args.token.memberId = 2
    /\ Len(events) = 3

\* C8: authenticateToken answers 401 'Access token required' without a
\* token, 401 'Invalid token' for a wrong signature, 401 'Token expired'
\* from 24 hours after issue on, 401 'Invalid or inactive member' when the
\* member is missing or has is_active false, in this order, and lets every
\* other request through (no 401).
C8_AuthenticateToken ==
    [][resp'.op \in AdminOps =>
        LET t == resp'.args.token
            answer == <<resp'.status, resp'.error>>
        IN  IF t = NoToken THEN answer = <<401, "Access token required">>
            ELSE IF t.sig # "good" THEN answer = <<401, "Invalid token">>
            ELSE IF ~TokenFresh(t, NowHours)
                 THEN answer = <<401, "Token expired">>
            ELSE IF ~TokenMemberActive(t, members)
                 THEN answer = <<401, "Invalid or inactive member">>
            ELSE resp'.status # 401]_vars

\* A token of the admin issued at the first clock reading is refused as
\* expired exactly 24 hours later.
C8_Witness ==
    /\ resp.op \in AdminOps
    /\ resp.error = "Token expired"
    /\ resp.args.token = TokenAt(1, 1)
    /\ NowHours = Hours(Timeline[1]) + 24

\* The member the issued token names is an active row matching the
\* identifier on email, phone or member_id, with status active.
LoginGrounds(r) ==
    /\ r.token.memberId \in 1..Len(members)
    /\ LET m == members[r.token.memberId]
       IN  /\ m.is_active = TRUE
           /\ r.args.identifier \in {m.email, m.phone, m.member_id}
           /\ m.status = "active"
    /\ r.args.password = "password123"

\* C9 as stated: login issues a token only on those grounds, and answers
\* 401 in every other case.
C9_LoginOr401 ==
    [][resp'.op = "login" =>
         IF resp'.token # NoToken THEN LoginGrounds(resp')
         ELSE resp'.status = 401]_vars

\* C9: login issues a token (with status 200) only to an is_active member
\* matching the identifier on email, phone or member_id whose status is
\* active, and only for the password 'password123'; without a token the
\* answer is 400 when the identifier is empty or the password is shorter
\* than 6 characters, else 401, or 500 when the lookup throws.
C9_LoginContract ==
    [][resp'.op = "login" =>
         IF resp'.token # NoToken
         THEN resp'.status = 200 /\ LoginGrounds(resp')
         ELSE IF resp'.args.identifier = "" \/ Len(resp'.args.password) < 6
              THEN resp'.status = 400
              ELSE resp'.status \in {401, 500}]_vars

\* Member 2 signed in with its member_id and the bypass password.
C9_Witness ==
    /\ resp.op = "login" /\ resp.status = 200
    /\ resp.args.identifier = "MEM1003"
    /\ resp.token.memberId = 2 /\ resp.token.sig = "good"

ActivePhones(ms) == {ms[i].phone : i \in {j \in 1..Len(ms) : ms[j].is_active}}

\* C10 as stated: a token exactly for a phone of an is_active member with
\* otp '1234'; 401 for every unknown phone; 400 for a known phone with
\* another otp.
C10_OtpLoginAsStated ==
    [][resp'.op = "otp-login" =>
         LET known == resp'.args.phone \in ActivePhones(members)
         IN  /\ resp'.token # NoToken <=> known /\ resp'.args.otp = "1234"
             /\ ~known => resp'.status = 401
             /\ known /\ resp'.args.otp # "1234" => resp'.status = 400]_vars

\* C10: an otp outside 4 to 6 characters (or an empty phone) is answered
\* 400 whatever the phone; otherwise a token is issued exactly when an
\* is_active member has the phone and otp is '1234', whatever that member's
\* status, an unknown phone is answered 401 'Phone number not registered'
\* and a known phone with another otp 400 'Invalid OTP'.
C10_OtpLoginContract ==
    [][resp'.op = "otp-login" =>
         LET known == resp'.args.phone \in ActivePhones(members)
             otp == resp'.args.otp
         IN  IF resp'.args.phone = "" \/ Len(otp) < 4 \/ Len(otp) > 6
             THEN resp'.status = 400 /\ resp'.token = NoToken
             ELSE /\ resp'.token # NoToken <=> known /\ otp = "1234"
                  /\ resp'.token # NoToken =>
                        /\ resp'.status = 200
                        /\ resp'.token.memberId \in 1..Len(members)
                        /\ members[resp'.token.memberId].phone
                             = resp'.args.phone
                        /\ members[resp'.token.memberId].is_active = TRUE
                  /\ ~known => <<resp'.status, resp'.error>>
                                 = <<401, "Phone number not registered">>
                  /\ known /\ otp # "1234"
                       => <<resp'.status, resp'.error>>
                            = <<400, "Invalid OTP">>]_vars

\* A suspended member 2 signed in by OTP.
C10_Witness ==
    /\ resp.op = "otp-login" /\ resp.status = 200
    /\ resp.token.memberId = 2
    /\ members[2].status = "suspended"
    /\ members[2].is_active

\* The ids a response lists.
Listed(r) == {r.items[i] : i \in 1..Len(r.items)}

\* C11: every notification the list route returns for a member id has that
\* member_id or is a broadcast, and has the requested status when one is
\* given; a row addressed to another member and not broadcast is never
\* among them.
C11_ListOnlyOwnOrBroadcast ==
    (resp.op = "list-notifications" /\ resp.status = 200)
    => \A id \in Listed(resp) :
         /\ id \in 1..Len(notifications)
         /\ \/ notifications[id].is_broadcast = TRUE
            \/ /\ resp.args.query \in DOMAIN MemberIdOfQuery
               /\ notifications[id].member_id
                    = MemberIdOfQuery[resp.args.query]
         /\ resp.args.status # "" => notifications[id].status = resp.args.status

\* Member 1 listed its notifications and got its own row while an unread
\* row of member 2 is stored.
C11_Witness ==
    /\ resp.op = "list-notifications" /\ resp.status = 200
    /\ resp.args.query = "1"
    /\ \E id \in Listed(resp) : notifications[id].member_id = 1
    /\ \E i \in 1..Len(notifications) :
          notifications[i].member_id = 2 /\ ~notifications[i].is_broadcast

\* The rows of ns from position k on.
RowsFrom(ns, k) == SubSeq(ns, k, Len(ns))

\* C12: an event-reminder request for an existing event adds, on success,
\* exactly one notification per entry of member_ids, in order, each of type
\* event_reminder, unread and not broadcast, and answers notifications_sent
\* = the number of entries; when an entry names no member nothing is added
\* and the answer is 500; an unknown event gives 404; every answer other
\* than success leaves the table as it was.
C12_ReminderAllOrNothing ==
    [][resp'.op = "event-reminder" =>
        LET ids == resp'.args.member_ids
            e == resp'.args.event_id
            old == Len(notifications)
            added == RowsFrom(notifications', old + 1)
        IN  /\ SubSeq(notifications', 1, old) = notifications
            /\ resp'.status = 200 =>
                 /\ Len(added) = Len(ids) /\ resp'.n = Len(ids)
                 /\ \A i \in 1..Len(ids) :
                       /\ added[i].member_id = ids[i]
                       /\ added[i].type = "event_reminder"
                       /\ added[i].status = "unread"
                       /\ added[i].is_broadcast = FALSE
            /\ resp'.status # 200 => notifications' = notifications
            /\ (e \in 1..Len(events) /\ Len(ids) >= 1
                   /\ \E i \in 1..Len(ids) :
                        ids[i] # NULL /\ ids[i] \notin 1..Len(members))
                 => resp'.status = 500
            /\ (e >= 1 /\ e \notin 1..Len(events) /\ Len(ids) >= 1)
                 => resp'.status = 404]_vars

\* A reminder for members 2 and 9 (no such member) was refused with 500
\* and the table holds no reminder for member 2.
C12_Witness ==
    /\ resp.op = "event-reminder" /\ resp.status = 500
    /\ resp.args.member_ids = <<2, 9>>
    /\ \A i \in 1..Len(notifications) : notifications[i].member_id # 2

\* text contains term, compared without regard to case.
ContainsNoCase(text, term) ==
    LET t == [i \in 1..Len(Chars[text]) |-> Lower(Chars[text][i])]
        s == [i \in 1..Len(Chars[term]) |-> Lower(Chars[term][i])]
    IN  \E k \in 0..(Len(t) - Len(s)) : SubSeq(t, k + 1, k + Len(s)) = s

\* C13: every member row the list returns for a search term is active,
\* contains the term without regard to case in first_name, last_name, email
\* or member_id, and has the status and membership_type asked for.
C13_SearchOnlyContaining ==
    (resp.op = "admin-search-members" /\ resp.status = 200)
    => \A id \in Listed(resp) :
         LET row == members[id] IN
         /\ row.is_active = TRUE
         /\ resp.args.search # "" =>
              \E text \in {row.first_name, row.last_name, row.email,
                            row.member_id} :
                 ContainsNoCase(text, resp.args.search)
         /\ resp.args.status # "" => row.status = resp.args.status
         /\ resp.args.membership_type # ""
              => row.membership_type = resp.args.membership_type

ListOps ==
    {"list-notifications", "list-payments", "admin-list-events",
     "admin-search-members"}

\* The ids of the rows a list request matches, and the sort key of a row,
\* read from the tables.
FilteredIds(r) ==
    CASE r.op = "list-notifications" ->
           {i \in 1..Len(notifications) :
               /\ \/ notifications[i].is_broadcast = TRUE
                  \/ /\ r.args.query \in DOMAIN MemberIdOfQuery
                     /\ notifications[i].member_id
                          = MemberIdOfQuery[r.args.query]
               /\ r.args.status # "" => notifications[i].status = r.args.status}
      [] r.op = "list-payments" ->
           {i \in 1..Len(payments) :
               /\ r.args.query \in DOMAIN MemberIdOfQuery
               /\ payments[i].member_id = MemberIdOfQuery[r.args.query]}
      [] r.op = "admin-list-events" ->
           {i \in 1..Len(events) : events[i].is_active = TRUE}
      [] OTHER ->
           {i \in 1..Len(members) :
               /\ members[i].is_active = TRUE
               /\ r.args.status # "" => members[i].status = r.args.status
               /\ r.args.membership_type # ""
                    => members[i].membership_type = r.args.membership_type}

PageSize(total, page, limit) ==
    LET rest == total - (page - 1) * limit
    IN  IF rest <= 0 THEN 0 ELSE IF rest < limit THEN rest ELSE limit

\* Two answers of the same list route to the same query but for the page.
SameQueryOtherPage(r1, r2) ==
    /\ r1.op \in ListOps /\ r1.op = r2.op
    /\ r1.status = 200 /\ r2.status = 200
    /\ r1.args.page # r2.args.page
    /\ [r1.args EXCEPT !.page = 0] = [r2.args EXCEPT !.page = 0]

\* C14: a list answer for page p >= 1 and limit n >= 1 carries totalItems =
\* the number of matching rows, totalPages = ceil(totalItems / n) and as
\* many distinct matching rows as the page holds; and two different pages
\* of one query asked one after the other on an unchanged store share no
\* item.
C14_Pagination ==
    /\ []((resp.op \in ListOps /\ resp.status = 200) =>
            LET total == Cardinality(FilteredIds(resp)) IN
            /\ resp.n = total
            /\ resp.pages = (total + resp.args.limit - 1) \div resp.args.limit
            /\ Listed(resp) \subseteq FilteredIds(resp)
            /\ Cardinality(Listed(resp)) = Len(resp.items)
            /\ Len(resp.items)
                 = PageSize(total, resp.args.page, resp.args.limit))
    /\ [][SameQueryOtherPage(resp, resp')
            => Listed(resp) \cap Listed(resp') = {}]_vars

\* The two halves of the same statement, each on its own.
C14_Totals ==
    (resp.op \in ListOps /\ resp.status = 200) =>
        resp.n = Cardinality(FilteredIds(resp))

C14_PagesDisjoint ==
    [][SameQueryOtherPage(resp, resp')
         => Listed(resp) \cap Listed(resp') = {}]_vars

\* The operations answered by a route's own handler or by the middleware in
\* front of it.
RouteOps ==
    AdminOps \cup ListOps \cup CreateOps
    \cup {"login", "otp-login", "unread-count", "register-event", "renew",
          "mark-read", "mark-all-read", "announcement", "membership-expiry",
          "event-reminder"}

\* The generic messages of the handlers' catch blocks.
GenericErrors ==
    {"Login failed", "OTP login failed", "Registration failed",
     "Failed to get unread count", "Failed to register for event",
     "Failed to create event", "Failed to update event",
     "Failed to record attendance", "Authentication error",
     "Authorization error"}

\* C15: every response is produced by the route's own handler (or the
\* token middleware in front of it) with one of the API's statuses, and a
\* 500 carries one of the generic messages: no failure, that of the upload
\* filter included, is answered from outside the handler.
C15_NoEscape ==
    resp # NoResp =>
        /\ resp.op \in RouteOps
        /\ resp.status \in {200, 201, 400, 401, 403, 404, 500}
        /\ resp.status = 500 => resp.error \in GenericErrors

\* C16: a record-attendance request for an existing event and an existing
\* member is answered with success, and then exactly one attendance row
\* exists for the pair and holds the given status and notes, in every
\* interleaving with other record-attendance and register-event requests.
C16_UpsertAlwaysSucceeds ==
    [][(resp'.op = "record-attendance"
          /\ resp'.status \notin {400, 401, 403, 404})
       => /\ resp'.status = 200
          /\ LET rows == PairRows(attendances', resp'.args.member_id,
                                  resp'.args.event_id)
             IN  /\ Cardinality(rows) = 1
                 /\ \A i \in rows :
                       /\ attendances'[i].status = resp'.args.status
                       /\ attendances'[i].notes = resp'.args.notes]_vars

\* C17: in every reachable state there is at most one attendance row per
\* (event_id, member_id) pair, whatever the interleaving of register-event
\* and record-attendance requests.
C17_OneRowPerPair ==
    \A i, j \in 1..Len(attendances) :
        (attendances[i].event_id = attendances[j].event_id
           /\ attendances[i].member_id = attendances[j].member_id) => i = j

\* C17 witness: a record-attendance request that found no row reached its
\* insert after another request had stored the pair, and was refused.
C17_Witness ==
    /\ resp.op = "record-attendance" /\ resp.status = 500
    /\ Cardinality(PairRows(attendances, resp.args.member_id,
                            resp.args.event_id)) = 1

\* C18: attendance_date is non-null only on attended rows, a row created by
\* register-event has a null attendance_date, and record-attendance with
\* status attended on a row that is already attended leaves the row's
\* attendance_date unchanged.
C18_DateOnlyOnTransition ==
    /\ [](\A i \in 1..Len(attendances) :
            attendances[i].attendance_date # NULL
              => attendances[i].status = "attended")
    /\ [][(resp'.op = "register-event" /\ resp'.status = 200)
          => /\ Len(attendances') = Len(attendances) + 1
             /\ attendances'[Len(attendances')].attendance_date = NULL]_vars
    /\ [][(resp'.op = "record-attendance" /\ resp'.status = 200
            /\ resp'.args.status = "attended")
          => \A i \in PairRows(attendances, resp'.args.member_id,
                                resp'.args.event_id) :
               attendances[i].status = "attended"
                 => attendances'[i].attendance_date
                      = attendances[i].attendance_date]_vars

\* C18, the first two parts alone
C18_DateImpliesAttended ==
    \A i \in 1..Len(attendances) :
        attendances[i].attendance_date # NULL
          => attendances[i].status = "attended"

C18_RegisterStoresNullDate ==
    [][(resp'.op = "register-event" /\ resp'.status = 200)
       => /\ Len(attendances') = Len(attendances) + 1
          /\ attendances'[Len(attendances')].attendance_date = NULL]_vars

\* C19: in every reachable state no two member rows share an email and no
\* two share a member_id, whatever the interleaving of register, admin create
\* and admin update requests.
C19_MembersUnique ==
    \A i, j \in 1..Len(members) :
        (members[i].email = members[j].email
           \/ members[i].member_id = members[j].member_id) => i = j

\* C19 witness: a register request passed its findOne, another request stored
\* the same email before its create, and the create was refused.
C19_Witness ==
    /\ resp.op = "register"
    /\ resp.error = "Email or member ID already exists"
    /\ EmailRegistered(NormalizeEmail(resp.args.body.email))
    /\ \A i \in 1..Len(members) : members[i].member_id # resp.args.gen

\* C20: in every state reachable through the event-reminder, membership-expiry
\* and announcement routes, a notification row has a null member_id if and
\* only if its is_broadcast is true.
C20_NullIffBroadcast ==
    \A i \in 1..Len(notifications) :
        (notifications[i].member_id = NULL) <=> notifications[i].is_broadcast

\* C20, one direction: every broadcast row has a null member_id
C20_BroadcastHasNoMember ==
    \A i \in 1..Len(notifications) :
        notifications[i].is_broadcast => notifications[i].member_id = NULL

\* The member rows written by register or admin create (not by the seed)
CreatedMembers ==
    {i \in 1..Len(members) : members[i].member_id \in GeneratedMemberIds}

QrCurrent(row) ==
    row.qr_code = QrPayload(row.member_id, row.first_name, row.last_name,
                            row.membership_type)

\* C21: a member created by register or admin create has, in every later
\* state reached by admin update, renew and disable, the QR payload of its
\* current member_id, names and membership_type; an update that changes none
\* of these fields leaves qr_code unchanged.
C21_QrFollowsIdentity ==
    /\ [](\A i \in CreatedMembers : QrCurrent(members[i]))
    /\ [][\A i \in CreatedMembers :
            (/\ members'[i].member_id = members[i].member_id
             /\ members'[i].first_name = members[i].first_name
             /\ members'[i].last_name = members[i].last_name
             /\ members'[i].membership_type = members[i].membership_type)
            => members'[i].qr_code = members[i].qr_code]_vars

\* C21 for the requests that do not name qr_code: the payload stays current
C21_QrCurrentUnlessNamed ==
    [][(\A i \in CreatedMembers : QrCurrent(members[i]))
       /\ ~(resp'.op = "admin-update-member"
              /\ "qr_code" \in DOMAIN resp'.args.body)
       => \A i \in 1..Len(members') :
            members'[i].member_id \in GeneratedMemberIds
              => QrCurrent(members'[i])]_vars

IdsOf(rows) == {rows[i].id : i \in 1..Len(rows)}

\* C22: no request removes a row of any table; disable keeps the member row
\* and sets is_active to false and status to inactive, and a member list
\* answered while the member is disabled does not hold it.
C22_SoftDeleteOnly ==
    /\ [][/\ IdsOf(members) \subseteq IdsOf(members')
          /\ IdsOf(payments) \subseteq IdsOf(payments')
          /\ IdsOf(events) \subseteq IdsOf(events')
          /\ IdsOf(attendances) \subseteq IdsOf(attendances')
          /\ IdsOf(notifications) \subseteq IdsOf(notifications')]_vars
    /\ [][(resp'.op = "admin-disable-member" /\ resp'.status = 200)
          => /\ resp'.args.id \in IdsOf(members')
             /\ ~members'[resp'.args.id].is_active
             /\ members'[resp'.args.id].status = "inactive"]_vars
    /\ []((resp.op = "admin-search-members" /\ resp.status = 200)
          => \A k \in 1..Len(resp.items) : members[resp.items[k]].is_active)

\* C22 witness: the member list is answered after a member was disabled
C22_Witness ==
    /\ resp.op = "admin-search-members" /\ resp.status = 200
    /\ Len(resp.items) >= 1
    /\ \E i \in 1..Len(members) :
         /\ ~members[i].is_active
         /\ \A k \in 1..Len(resp.items) : resp.items[k] # i

RenewalsOf(member_id) ==
    Cardinality({i \in 1..Len(payments) :
                    /\ payments[i].member_id = member_id
                    /\ payments[i].payment_type = "renewal"})

RECURSIVE AddYears(_, _)
AddYears(date, k) == IF k = 0 THEN date ELSE AddYears(AddYear(date), k - 1)

\* The expiry date member 2 is seeded with (after the clock's last reading)
SeededExpiry == CHOOSE e \in SeedExpiries : \A f \in SeedExpiries : f <= e

\* C23: when k renew calls for the same member, whose expiry_date lies in the
\* future, have all completed, the member's expiry_date is the original one
\* plus k years, whatever the interleaving of their reads and writes.
C23_EachRenewalAddsAYear ==
    (\A r \in reqs : r.op # "renew")
    => members[2].expiry_date = AddYears(SeededExpiry, RenewalsOf(2))

Elevated(i) == members[i].membership_type \in {"vip", "lifetime"}

\* C24: renew needs no token and takes any tier and any amount >= 0, and
\* after renew(M, 'vip', method, 0) on an active basic member M, login(M)
\* yields a token that passes authenticateToken and requireAdmin.
C24_RenewThenLoginElevates ==
    /\ [][(resp'.op = "renew" /\ resp'.args.amount >= 0)
          => /\ resp'.status = 200
             /\ members'[resp'.args.member_id].membership_type
                  = resp'.args.membership_type]_vars
    /\ [][(/\ resp'.op = "login"
           /\ resp'.args.password = "password123"
           /\ \E i \in LoginMatches(resp'.args.identifier) :
                 members[i].status = "active" /\ Elevated(i))
          => /\ resp'.token # NoToken
             /\ AdminGate(resp'.token).status = 0]_vars

\* C24, the renewal half alone
C24_RenewTakesAnyTier ==
    [][(resp'.op = "renew" /\ resp'.args.amount >= 0)
       => /\ resp'.status = 200
          /\ members'[resp'.args.member_id].membership_type
               = resp'.args.membership_type]_vars

\* C24: every token handed to a member whose tier a renewal has raised
\* passes the admin gate
C24_IssuedTokenPasses ==
    (resp.token # NoToken /\ Elevated(resp.token.memberId))
    => AdminGate(resp.token).status = 0

\* Member 2, seeded basic, lists the members with a token of its own
C24_Escalated ==
    /\ resp.op = "admin-list-members" /\ resp.status = 200
    /\ resp.args.token.memberId = 2

OffRouteOps == {"admin-disable-member", "admin-update-member", "admin-get-member"}

\* C25: while a member's is_active is false, every request carrying a token
\* of that member is answered 401 by authenticateToken, and login and
\* otp-login hand out no token for that member.
C25_DisabledMemberLockedOut ==
    /\ [][(/\ resp'.op \in OffRouteOps
           /\ resp'.args.token.memberId \in 1..Len(members)
           /\ ~members[resp'.args.token.memberId].is_active)
          => /\ resp'.status = 401
             /\ UNCHANGED store]_vars
    /\ [](resp.op \in {"login", "otp-login"} /\ resp.token # NoToken
           => members[resp.token.memberId].is_active)

\* C25 witness: member 2 was disabled, and its token, signed at the first
\* clock reading and not yet expired, is refused for that reason.
C25_Witness ==
    /\ resp.op = "admin-get-member" /\ resp.status = 401
    /\ resp.error = "Invalid or inactive member"
    /\ resp.args.token = TokenAt(2, 1)
    /\ ~members[2].is_active

\* C26: after register(..., email e, password p) succeeds, login(e, p)
\* succeeds for that member, for every password p of at least 6 characters;
\* a password other than p and other than 'password123' is rejected.
C26_RegisterLoginRoundTrip ==
    [][(/\ resp.op = "register" /\ resp.status = 201
        /\ resp'.op = "login"
        /\ resp'.args.identifier = resp.args.body.email)
       => IF resp'.args.password = resp.args.body.password
          THEN /\ resp'.status = 200
               /\ resp'.token.memberId = resp.token.memberId
          ELSE resp'.args.password # "password123" => resp'.status = 401]_vars

\* C26, the rejecting half: a password that is neither the registered one
\* nor 'password123' is refused
C26_OtherPasswordRejected ==
    [][(/\ resp.op = "register" /\ resp.status = 201
        /\ resp'.op = "login"
        /\ resp'.args.identifier = resp.args.body.email
        /\ resp'.args.password \notin {resp.args.body.password, "password123"})
       => resp'.status = 401]_vars

RenewedFields == {"membership_type", "status", "expiry_date", "qr_code"}

\* C27: renew changes only the member's membership_type, status, expiry_date
\* and qr_code and adds one payment row; is_active stays as it was, so a
\* disabled member it has renewed (status active again) still fails the
\* token check and is matched by neither login nor otp-login.
C27_RenewFrame ==
    /\ [][(resp'.op = "renew" /\ resp'.status = 200)
          => LET id == resp'.args.member_id IN
             /\ DOMAIN members' = DOMAIN members
             /\ \A i \in DOMAIN members : i # id => members'[i] = members[i]
             /\ \A f \in DOMAIN members[id] \ RenewedFields :
                   members'[id][f] = members[id][f]
             /\ members'[id].status = "active"
             /\ Len(payments') = Len(payments) + 1
             /\ SubSeq(payments', 1, Len(payments)) = payments
             /\ UNCHANGED <<events, attendances, notifications>>]_vars
    /\ [][(/\ resp'.op \in OffRouteOps \cup {"login", "otp-login"}
           /\ resp'.status = 200)
          => LET i == IF resp'.op \in OffRouteOps
                      THEN resp'.args.token.memberId
                      ELSE resp'.token.memberId
             IN  members[i].is_active]_vars

\* C27 witness: member 2 was disabled and then renewed
C27_Witness ==
    /\ resp.op = "renew" /\ resp.status = 200 /\ resp.args.member_id = 2
    /\ ~members[2].is_active /\ members[2].status = "active"

UnreadBroadcasts(rows) ==
    {i \in 1..Len(rows) : rows[i].is_broadcast /\ rows[i].status = "unread"}

UnreadOwn(rows, member_id) ==
    {i \in 1..Len(rows) :
        /\ rows[i].member_id = member_id /\ ~rows[i].is_broadcast
        /\ rows[i].status = "unread"}

\* C28: a broadcast has one status for all members: mark-all-read by any
\* member, or mark-read on its id, leaves it read, and from then on it is
\* neither counted by unread-count nor returned by the unread list of any
\* other member.
C28_BroadcastStatusShared ==
    /\ [][(resp'.op = "mark-all-read" /\ resp'.status = 200)
          => UnreadBroadcasts(notifications') = {}]_vars
    /\ [][(resp'.op = "mark-read" /\ resp'.status = 200)
          => resp'.args.id \notin UnreadBroadcasts(notifications')]_vars
    /\ []((resp.op = "unread-count" /\ resp.status = 200
            /\ resp.args.query \in DOMAIN MemberIdOfQuery)
          => resp.n = Cardinality(UnreadBroadcasts(notifications))
                      + Cardinality(UnreadOwn(notifications,
                                              MemberIdOfQuery[resp.args.query])))
    /\ []((resp.op = "list-notifications" /\ resp.status = 200
            /\ resp.args.status = "unread")
          => \A id \in Listed(resp) : notifications[id].status = "unread")

\* C28 witness: member 1 marked all read while a broadcast was unread; the
\* broadcast is read for everyone.
C28_Witness ==
    /\ resp.op = "mark-all-read" /\ resp.status = 200
    /\ resp.args.member_id = 1
    /\ \E i \in 1..Len(notifications) :
         notifications[i].is_broadcast /\ notifications[i].status = "read"
    /\ \E i \in 1..Len(notifications) : notifications[i].member_id = 2

\* C29: mark-all-read for member m sets to read exactly the rows that are
\* unread and addressed to m or broadcast, leaves every other row as it was,
\* and afterwards the unread count of m is 0.
C29_MarkAllReadFrame ==
    [][(resp'.op = "mark-all-read" /\ resp'.status = 200)
       => LET mem == resp'.args.member_id IN
          /\ Len(notifications') = Len(notifications)
          /\ \A i \in 1..Len(notifications) :
                IF /\ notifications[i].status = "unread"
                   /\ \/ notifications[i].member_id = mem
                      \/ notifications[i].is_broadcast
                THEN notifications'[i]
                       = [notifications[i] EXCEPT !.status = "read"]
                ELSE notifications'[i] = notifications[i]
          /\ CountUnread(notifications', mem) = 0]_vars

\* C29 witness: member 1 marked all read; its own row is read, and an unread
\* row of member 2 is still unread.
C29_Witness ==
    /\ resp.op = "mark-all-read" /\ resp.status = 200
    /\ resp.args.member_id = 1
    /\ \E i \in 1..Len(notifications) :
         notifications[i].member_id = 1 /\ notifications[i].status = "read"
    /\ \E i \in 1..Len(notifications) :
         /\ notifications[i].member_id = 2 /\ ~notifications[i].is_broadcast
         /\ notifications[i].status = "unread"

ClientErrors == {400, 401, 403, 404}

\* C30: a request answered 400, 401, 403 or 404 has inserted and changed
\* no row: the store after the response equals the store before the request.
C30_ClientErrorLeavesStore ==
    [][resp'.status \in ClientErrors => UNCHANGED store]_vars

\* C30 witness: with the one seat of event 1 taken, another registration
\* for it was refused as full.
C30_Witness ==
    /\ resp.status = 400 /\ resp.error = "Event is full"
    /\ Len(attendances) = 1

====
